---- MODULE Spec2Model ----
(***************************************************************************)
(* A model of the driving simulation of av_simulation_co_manual_notif.     *)
(*                                                                         *)
(* The repository holds four builds of one React component:                *)
(*   s  src/src/driving_simulator.tsx      copilot only, variable step     *)
(*   f  src/unnamed/part_001               copilot only, fixed step        *)
(*   n  src/unnamed/part_000 l.1129-3186   notifications, manual control   *)
(*   manual  src/unnamed/part_000 l.1-1128  manual control, 90 seconds, *)
(*                                         one step per animation frame    *)
(* Each build is one record-valued variable holding the refs and the       *)
(* closure variables of the component's mount effect.                      *)
(*                                                                         *)
(* Representation.  Lengths and velocities are integers in thousandths of  *)
(* a world unit (1.6 is 1600); the source's z axis is kept (the car moves  *)
(* towards negative z).  The clock `now` (Date.now and performance.now)    *)
(* counts quanta: QUANTA quanta are one fixed step of 1/60 s, so 1000 ms   *)
(* are SEC quanta.  Every callback action first lets time pass (its delay  *)
(* since the previous callback of any kind) and then runs the callback.    *)
(* Rendering, the camera, the road and the setState calls that feed only   *)
(* the display (speed, progress, score flash, countdown digits, the pop-up *)
(* of the copilot-only builds) are not part of the state.  The while loop  *)
(* of a fixed-step animation callback runs one pass per step of the model  *)
(* (inLoop is set while passes remain; no other callback or input runs in  *)
(* between, as the loop is synchronous).  A setState call whose value the  *)
(* handlers read back through a ref is split in two: the state changes at  *)
(* once, the ref when the effect that copies it has run.  The notification *)
(* list and its ref change together, in the callback that queues the       *)
(* update.  The accumulator of the fixed-step builds is a double: where    *)
(* its rounding decides whether a step is made, both outcomes are steps of *)
(* the model.                                                              *)
(*                                                                         *)
(* Specifications.  SpecS, SpecF, SpecN and SpecM are the four builds      *)
(* under timer and animation callbacks and pointer input.  SpecNK is the   *)
(* notification build driven from the keyboard (frames only after the      *)
(* start, no timer), SpecFL the fixed-step build resumed after a long      *)
(* suspension, whose catch-up loop carries the car into the traffic.       *)
(* SpecSS is the variable-step build with callbacks seconds apart, SpecNT   *)
(* the notification build driven by the mode button, SpecNH the same build *)
(* with a driver who brakes and hands the car over, SpecNA the run left to *)
(* the autopilot under fair scheduling of the callbacks, and SpecFE the     *)
(* mount entry point of part_001.                                          *)
(***************************************************************************)
EXTENDS Integers, Sequences, FiniteSets, TLC

VARIABLES now, s, f, n, manual

vars == <<now, s, f, n, manual>>

----------------------------------------------------------------------------
(* Arithmetic helpers (Math.max, Math.min, Math.abs, Math.floor of a ratio) *)

Max(a, b) == IF a >= b THEN a ELSE b

Min(a, b) == IF a <= b THEN a ELSE b

Abs(a) == IF a >= 0 THEN a ELSE 0 - a

\* x * num / den, rounded towards zero (the fixed-point image of x * 0.2)
Scale(x, num, den) == IF x >= 0 THEN (x * num) \div den ELSE 0 - (((0 - x) * num) \div den)

\* [0 .. n-1] of a sequence's indices, as the source counts them
Idx(q) == 0 .. (Len(q) - 1)

At(q, i) == q[i + 1]

RemoveAt(q, i) == [j \in 1 .. (Len(q) - 1) |-> IF j <= i THEN q[j] ELSE q[j + 1]]

----------------------------------------------------------------------------
(* Bounds of the model *)

\* clock quanta per fixed step of 1/60 s
QUANTA == 2

\* animation callbacks per run
MaxFrames == 3

\* animation callbacks explored before the run starts
MaxIdleFrames == 1

\* longest gap between two animation callbacks that is explored, in fixed steps
MaxCatchUp == 400

\* the longest gap between two animation frames of the variable-step build,
\* in steps of 1/60 s: a frame may come after a whole run without one
SMaxCatchUp == 3000

\* timer-interval callbacks per run
MaxTimerCalls == 2

\* callbacks (timer and animation) explored after the start of a fixed-step run
MaxCallbacks == 3

\* user inputs (mode button, key events, notification clicks) per run
MaxInputs == 2

\* further callbacks explored once the finish line of the notification build
\* is crossed
MaxLateCallbacks == 1

\* key events per run, and animation callbacks after the start, of the runs
\* of the notification build that are driven by the keyboard
MaxKeyInputs == 3

MaxKeyFrames == 3

\* animation callbacks after the start of a run of the variable-step build
\* whose callbacks arrive seconds apart
MaxSparseFrames == 5

\* clicks on the mode button in the runs of the notification build that are
\* driven by that button
MaxToggles == 3

\* animation callbacks after the start of a run of the notification build in
\* which the driver brakes and hands the car over to the autopilot
MaxHandoverFrames == 4

\* calls of startDrivingSimulator and unmountDrivingSimulator in a page
MaxEntryCalls == 4

----------------------------------------------------------------------------
(* Program constants shared by the builds *)

FIXED_FPS == 60

SEC == FIXED_FPS * QUANTA

MS100 == 6 * QUANTA

INF == 1000000000

lanes == <<-2000, 0, 2000>>

AUTOPILOT_SPEED_UNITS == 1600

INITIAL_SCORE == 1000

ElapsedSeconds(w, t) ==
  IF w.startTimeRef # 0 /\ w.gameStartedRef THEN (t - w.startTimeRef) \div SEC ELSE -1

ModeLabel(w) == IF w.autopilotRef THEN "copilot" ELSE "manual"


----------------------------------------------------------------------------
(* Pieces of the animation step the three builds share.  They take the     *)
(* numbers in which the builds differ as parameters.                       *)

SetMin(S) == CHOOSE m \in S : \A x \in S : m <= x

Obstacles(w) == w.otherCars \o w.finalBlocks

\* laneInfo after the scan of allObstacles: nearestObstacle and safe per lane
LaneInfo(w, behind, ahead, width, unsafe) ==
  LET obs == Obstacles(w)
      rel(j) == obs[j].z - w.carZ
      seen(i) == {j \in 1 .. Len(obs) :
                    /\ rel(j) < behind
                    /\ rel(j) > 0 - ahead
                    /\ Abs(obs[j].x - lanes[i + 1]) < width}
  IN [i \in 0 .. 2 |->
        [nearestObstacle |-> IF seen(i) = {} THEN INF
                             ELSE SetMin({Abs(rel(j)) : j \in seen(i)}),
         safe |-> \A j \in seen(i) : ~(Abs(rel(j)) < unsafe)]]

\* emergencyStop of the copilot-only builds
EmergencyStop(w, behind, ahead) ==
  LET obs == Obstacles(w)
  IN \E j \in 1 .. Len(obs) :
       /\ obs[j].z - w.carZ < behind
       /\ obs[j].z - w.carZ > 0 - ahead
       /\ Abs(obs[j].z - w.carZ) < 50000
       /\ Abs(obs[j].x - w.carLaneOffset) < 1800

\* immediateObstacleAhead
ImmediateObstacleAhead(w, behind, ahead) ==
  LET obs == Obstacles(w)
  IN \E j \in 1 .. Len(obs) :
       /\ obs[j].z - w.carZ < behind
       /\ obs[j].z - w.carZ > 0 - ahead
       /\ Abs(obs[j].x - w.carLaneOffset) < 1500

\* a speed decision that stops the car where the source only brakes it
AutopilotSpeedStopping(v, emergency, immediate, hard, hardMin, light, lightMin, dec) ==
  IF emergency THEN 0
  ELSE IF immediate THEN 0
  ELSE IF v < AUTOPILOT_SPEED_UNITS THEN Min(v + 50, AUTOPILOT_SPEED_UNITS)
  ELSE IF v > AUTOPILOT_SPEED_UNITS THEN Max(v - dec, AUTOPILOT_SPEED_UNITS)
  ELSE v

\* the speed decision of an autopilot step
AutopilotSpeed(v, emergency, immediate, hard, hardMin, light, lightMin, dec) ==
  IF emergency THEN Max(v - hard, hardMin)
  ELSE IF immediate THEN Max(v - light, lightMin)
  ELSE IF v < AUTOPILOT_SPEED_UNITS THEN Min(v + 50, AUTOPILOT_SPEED_UNITS)
  ELSE IF v > AUTOPILOT_SPEED_UNITS THEN Max(v - dec, AUTOPILOT_SPEED_UNITS)
  ELSE v

\* The array modeByUnit is kept as its runs: a sequence, in index order, of
\* [from, to, mode] for the maximal stretches of indices from .. to that hold
\* the same label; an index in no run is a hole of the array.
NoUnits == <<>>

\* the runs of modeByUnit cut down to the indices outside from .. to
Clipped(modeByUnit, from, to) ==
  {r \in UNION {{[from |-> modeByUnit[i].from, to |-> Min(modeByUnit[i].to, from - 1),
                  mode |-> modeByUnit[i].mode],
                 [from |-> Max(modeByUnit[i].from, to + 1), to |-> modeByUnit[i].to,
                  mode |-> modeByUnit[i].mode]} : i \in DOMAIN modeByUnit} :
     r.from <= r.to}

RECURSIVE Ordered(_)
Ordered(runs) ==
  IF runs = {} THEN <<>>
  ELSE LET r == CHOOSE x \in runs : \A y \in runs : x.from <= y.from
       IN <<r>> \o Ordered(runs \ {r})

RECURSIVE Joined(_)
Joined(q) ==
  IF Len(q) < 2 THEN q
  ELSE LET h == Head(q)
           rest == Joined(Tail(q))
       IN IF h.mode = rest[1].mode /\ h.to + 1 = rest[1].from
          THEN <<[h EXCEPT !.to = rest[1].to]>> \o Tail(rest)
          ELSE <<h>> \o rest

\* modeByUnit[unit] = modeLabel for unit = from .. to
FillUnits(modeByUnit, from, to, label) ==
  IF from > to THEN modeByUnit
  ELSE Joined(Ordered(Clipped(modeByUnit, from, to)
                        \cup {[from |-> from, to |-> to, mode |-> label]}))

\* a log that writes the unit reached and leaves the skipped ones empty
LogDistanceUnitWithoutBackfill(w, cfg) ==
  LET currentDistanceUnit == Min(Abs(w.carZ) \div 1000, cfg.trackLength)
  IN IF currentDistanceUnit > w.lastDistanceUnitLoggedRef /\ currentDistanceUnit >= 0
     THEN [w EXCEPT
             !.modeByUnit = FillUnits(@, currentDistanceUnit, currentDistanceUnit, ModeLabel(w)),
             !.lastDistanceUnitLoggedRef = currentDistanceUnit]
     ELSE w

\* the per-step mode-by-distance-unit log
LogDistanceUnit(w, cfg) ==
  LET currentDistanceUnit == Min(Abs(w.carZ) \div 1000, cfg.trackLength)
  IN IF currentDistanceUnit > w.lastDistanceUnitLoggedRef /\ currentDistanceUnit >= 0
     THEN [w EXCEPT
             !.modeByUnit = FillUnits(@, w.lastDistanceUnitLoggedRef + 1,
                                      currentDistanceUnit, ModeLabel(w)),
             !.lastDistanceUnitLoggedRef = currentDistanceUnit]
     ELSE w

\* Map.set, Map.delete on collisionCooldown
MapSet(m, k, v) == [x \in (DOMAIN m) \cup {k} |-> IF x = k THEN v ELSE m[x]]

MapDelete(m, k) == [x \in (DOMAIN m) \ {k} |-> m[x]]

EmptyMap == [x \in {} |-> 0]

\* a lookup that takes an obstacle without an entry to be on cooldown
CooldownExpiredOnlyIfSeen(w, key) ==
  /\ key \in DOMAIN w.collisionCooldown
  /\ w.frameCount - w.collisionCooldown[key] > 60

\* !collisionCooldown.has(key) || frameCount - collisionCooldown.get(key) > 60
CooldownExpired(w, key) ==
  \/ key \notin DOMAIN w.collisionCooldown
  \/ w.frameCount - w.collisionCooldown[key] > 60

\* a penalty of half the points
CollisionPenaltyHalved(score) ==
  Max(0, score - 5)

\* scoreRef.current = Math.max(0, scoreRef.current - 10)
CollisionPenalty(score) ==
  Max(0, score - 10)

\* what a registered collision does; obj and tick are the obstacle hit and
\* the step, kept with the event so that the claims can speak of them
RegisterCollision(w, cfg, key, type, obj) ==
  [w EXCEPT
     !.scoreRef = IF cfg.penalised THEN CollisionPenalty(@) ELSE @,
     !.collisionEvents = Append(@,
        [unit |-> Min(Abs(w.carZ) \div 1000, cfg.trackLength),
         mode |-> ModeLabel(w), lane |-> w.currentLaneIndex, z |-> w.carZ,
         type |-> type, obj |-> obj, tick |-> w.frameCount]),
     !.whiteBlocksHit = IF type = "block" THEN @ + 1 ELSE @,
     !.collisionCooldown = MapSet(@, key, w.frameCount)]

\* otherCars.forEach: advance, recycle, collide (k is deltaFactor)
RECURSIVE TrafficLoop(_, _, _, _)
TrafficLoop(w, cfg, index, k) ==
  IF index >= Len(w.otherCars) THEN w
  ELSE
    LET car == At(w.otherCars, index)
        z1 == car.z + 30 * k
        recycle == z1 > w.carZ + 150000
        car2 == IF recycle
                THEN [car EXCEPT !.z = w.carZ - 800000 - index * 500000,
                                 !.x = lanes[At(<<0, 2, 1>>, index % 3) + 1]]
                ELSE [car EXCEPT !.z = z1]
        w1 == [w EXCEPT
                 !.otherCars[index + 1] = car2,
                 !.collisionCooldown = IF recycle THEN MapDelete(@, <<"car", index>>) ELSE @]
        dx == Abs(car2.x - w1.carLaneOffset)
        dz == Abs(car2.z - w1.carZ)
        w2 == IF /\ (~w1.finishLineCrossed \/ ~cfg.guarded)
                 /\ dx < 1300 /\ dz < 2500
                 /\ CooldownExpired(w1, <<"car", index>>)
              THEN RegisterCollision(w1, cfg, <<"car", index>>, "traffic", <<"car", index>>)
              ELSE w1
    IN TrafficLoop(w2, cfg, index + 1, k)

\* the key under which a hazard's cooldown is kept
BlockKey(w, i) == <<"block", i>>

\* for (i = finalBlocks.length - 1; i >= 0; i--): remove far behind, collide
RECURSIVE BlocksLoop(_, _, _)
BlocksLoop(w, cfg, i) ==
  IF i < 0 THEN w
  ELSE
    LET block == At(w.finalBlocks, i)
    IN IF block.z > w.carZ + 200000
       THEN BlocksLoop([w EXCEPT !.finalBlocks = RemoveAt(@, i),
                                 !.flashTimeouts = @ \ {block.id}], cfg, i - 1)
       ELSE
         LET dx == Abs(block.x - w.carLaneOffset)
             dz == Abs(block.z - w.carZ)
             w1 == IF dx < 1800 /\ dz < 3000 /\ CooldownExpired(w, BlockKey(w, i))
                   THEN [RegisterCollision(w, cfg, BlockKey(w, i), "block", <<"block", block.id>>)
                           EXCEPT !.flashTimeouts = IF cfg.flash THEN @ \cup {block.id} ELSE @]
                   ELSE w
         IN BlocksLoop(w1, cfg, i - 1)

\* an easing that goes half as far again as the way to the target lane
MoveCarOvershooting(w, easeTenths, k) ==
  [w EXCEPT !.carLaneOffset = @ + Scale(w.targetLane - @, easeTenths * 15, 100),
            !.carZ = @ - w.carVelocity * k]

\* lateral easing and the longitudinal advance (k is deltaFactor)
MoveCar(w, easeTenths, k) ==
  [w EXCEPT !.carLaneOffset = @ + Scale(w.targetLane - @, easeTenths, 100),
            !.carZ = @ - w.carVelocity * k]


\* the six keys the animation loop exports
FullRecord(w) ==
  [sim_mode_by_second |-> w.modeBySecond,
   sim_white_blocks_hit |-> w.whiteBlocksHit,
   sim_failure_lane_hits |-> 0,
   sim_mode_by_unit |-> w.modeByUnit,
   sim_collision_events |-> w.collisionEvents,
   sim_final_score |-> w.finalScore]

\* the three keys the timer of the copilot-only builds exports
TimerRecord(w) ==
  [sim_mode_by_second |-> w.modeBySecond,
   sim_white_blocks_hit |-> w.whiteBlocksHit,
   sim_final_score |-> w.finalScore]

\* Qualtrics.SurveyEngine.setEmbeddedData for every key of data: qualtrics is
\* the embedded data of the survey; exports keeps, for the claims, the place
\* in the code that exported, the step, and the keys written
SetEmbeddedData(w, data, by) ==
  [w EXCEPT !.qualtrics = data @@ @,
            !.exports = Append(@, [by |-> by, tick |-> w.frameCount,
                                   complete |-> w.isComplete, keys |-> DOMAIN data])]

\* if (elapsed !== lastSecondLogged) modeBySecond.push(...)
LogSecond(w, elapsed) ==
  IF elapsed # w.lastSecondLogged
  THEN [w EXCEPT !.modeBySecond = Append(@, [second |-> elapsed, mode |-> ModeLabel(w)]),
                 !.lastSecondLogged = elapsed]
  ELSE w

\* notificationTimes.forEach: the indices triggered at this elapsed second
Triggered(w, elapsed, times) ==
  {i \in Idx(times) : elapsed = At(times, i) /\ i \notin w.notificationsShown}

\* accumulatedTime is a double and FIXED_DELTA = 1 / 60 is not a binary
\* fraction: the subtractions of the loop leave a sum that is a whole number
\* of steps a rounding error above or below it. Sums under 600 ms come out
\* exact; from 600 ms on both happen (1000 ms are held below 60 steps)
RoundsBelow(sum, down) == down /\ sum >= 6 * MS100 /\ sum % QUANTA = 0

\* while (accumulatedTime >= FIXED_DELTA): a last whole step held a rounding
\* error below FIXED_DELTA is not run
StepDue(acc, below) == acc > QUANTA \/ (acc = QUANTA /\ ~below)

\* the last decision of the autopilot (a ghost): the tick it was made on,
\* the lane it started from and the lane it selected, what laneInfo held for
\* the two and for the center lane, whether any lane was safe, whether the
\* 90-tick mark was passed, the branch of the speed decision and the velocity
\* the branch started from
NoDecision ==
  [tick |-> -1, from |-> 1, lane |-> 1,
   fromSafe |-> TRUE, laneSafe |-> TRUE, anySafe |-> TRUE,
   fromNearest |-> INF, laneNearest |-> INF, centerNearest |-> INF,
   hit90 |-> FALSE, branch |-> "none", before |-> 0]

\* the ghost of a decision made on laneInfo
Decision(w, info, bestLane, hit90, branch) ==
  [tick |-> w.frameCount, from |-> w.currentLaneIndex, lane |-> bestLane,
   fromSafe |-> info[w.currentLaneIndex].safe, laneSafe |-> info[bestLane].safe,
   anySafe |-> \E i \in 0 .. 2 : info[i].safe,
   fromNearest |-> info[w.currentLaneIndex].nearestObstacle,
   laneNearest |-> info[bestLane].nearestObstacle,
   centerNearest |-> info[1].nearestObstacle,
   hit90 |-> hit90, branch |-> branch, before |-> w.carVelocity]

\* shouldEmergencyBrake / immediateObstacleAhead / neither
Branch(emergency, immediate) ==
  IF emergency THEN "emergency" ELSE IF immediate THEN "light" ELSE "cruise"

\* The module scope of the mount entry point before the bundle is evaluated:
\* activeRoot (0 is null, otherwise an index of roots), activeContainer
\* ("null" or an element), the roots that ReactDOM.createRoot has returned,
\* each with its container, whether render was called on it and whether it
\* was unmounted, and the ids that document.getElementById resolves.  loaded,
\* calls and last (the entry that ran last, the container it resolved and the
\* root and container that were active before it) are kept for the claims.
NoEntry ==
  [loaded |-> FALSE, activeRoot |-> 0, activeContainer |-> "null",
   roots |-> <<>>, document |-> {}, calls |-> 0,
   last |-> [op |-> "none", container |-> "null", root |-> 0, from |-> "null"]]

\* the state shared by the builds before the mount effect has run
BaseInit ==
  [mounted |-> FALSE, torn |-> FALSE,
   showInstructions |-> TRUE, count |-> 3, countdownInterval |-> FALSE, goTimeout |-> FALSE,
   gameStartedRef |-> FALSE, startTimeRef |-> 0,
   isComplete |-> FALSE, isCompleteRef |-> FALSE, autopilotRef |-> FALSE,
   scoreRef |-> INITIAL_SCORE, lastDistanceUnitLoggedRef |-> -1,
   modeBySecond |-> <<>>, whiteBlocksHit |-> 0, modeByUnit |-> NoUnits,
   collisionEvents |-> <<>>, finalScore |-> 0,
   timerInterval |-> FALSE, lastScoreDeduction |-> 0, lastSecondLogged |-> -1,
   notificationsShown |-> {},
   autopilotTimer |-> 0, frameCount |-> 0, lastAnimationTime |-> -1, accumulatedTime |-> 0,
   carVelocity |-> 0, carLaneOffset |-> 0, targetLane |-> 0, currentLaneIndex |-> 1, carZ |-> 0,
   otherCars |-> <<[x |-> lanes[1], z |-> -400000], [x |-> lanes[3], z |-> -1200000]>>,
   finalBlocks |-> <<>>, lastBlockSpawnZ |-> 0, blockSpawnCount |-> 0,
   collisionCooldown |-> EmptyMap, flashTimeouts |-> {},
   wasAutopilot |-> FALSE, finishLineCrossed |-> FALSE, finishLineCrossTime |-> 0,
   qualtrics |-> EmptyMap, exports |-> <<>>, frames |-> 0, idleFrames |-> 0, timerCalls |-> 0, runTicks |-> 0, inLoop |-> FALSE,
   firstTimerAt |-> 0, lastTimerAt |-> 0, twin |-> <<>>,
   isAutopilot |-> TRUE, autopilotPendingRef |-> FALSE,
   keys |-> [ArrowUp |-> FALSE, ArrowDown |-> FALSE, ArrowLeft |-> FALSE, ArrowRight |-> FALSE],
   notifications |-> <<>>, lastLateBlockSpawnZ |-> 0, lastFinishBurstSpawnZ |-> 0,
   simNotifications |-> <<>>,
   inputs |-> 0, finalizations |-> 0, finalFirst |-> <<>>, finalSame |-> TRUE,
   loopTicks |-> 0, firstAnimationTime |-> -1, roundedDown |-> FALSE,
   atCompletion |-> <<>>, burst |-> 0,
   showViewAllNotificationsPopup |-> FALSE,
   selectedNotification |-> -1, selectedCommitted |-> -1,
   held |-> [ArrowUp |-> FALSE, ArrowDown |-> FALSE, ArrowLeft |-> FALSE, ArrowRight |-> FALSE],
   pressShifts |-> [ArrowLeft |-> 0, ArrowRight |-> 0], keyInputs |-> 0,
   switchVelocity |-> -1,
   decision |-> NoDecision, timeDeductions |-> 0, entry |-> NoEntry]

\* startGame: the resets, and the countdown interval is set
StartGame(w) ==
  [w EXCEPT !.showInstructions = FALSE, !.autopilotRef = TRUE,
            !.lastDistanceUnitLoggedRef = -1,
            !.modeBySecond = <<>>, !.whiteBlocksHit = 0, !.modeByUnit = NoUnits,
            !.collisionEvents = <<>>, !.finalScore = 0,
            !.count = 3, !.countdownInterval = TRUE]

\* one firing of the countdown interval: count--, GO at 0
CountdownStep(w) ==
  [w EXCEPT !.count = @ - 1,
            !.goTimeout = IF w.count - 1 = 0 THEN TRUE ELSE @]

\* the timeout set at GO: the run starts
GoTimeout(w, t) ==
  [w EXCEPT !.goTimeout = FALSE, !.gameStartedRef = TRUE, !.startTimeRef = t,
            !.scoreRef = INITIAL_SCORE, !.countdownInterval = FALSE]


----------------------------------------------------------------------------
(* Build s: src/src/driving_simulator.tsx (copilot only, variable step)     *)

\* delays of an animation frame of the model, in fixed steps
SFrameDelays == {1, 2, 52, 126}

\* Math.random() draws of the model: the lane, and the offset 3 + random * 4
SRandomLanes == {0, 1}

SRandomOffsets == {3000}

\* delays of the timer interval of the model
STimerDelays == {SEC, 44 * SEC}

SCfg == [trackLength |-> 7000, penalised |-> TRUE, flash |-> FALSE, guarded |-> TRUE]

SInit == BaseInit

\* the mount effect: refs, the timer interval, the first animate() call
SMountEffect(w, t) ==
  [w EXCEPT !.mounted = TRUE, !.autopilotRef = TRUE, !.timerInterval = TRUE,
            !.lastAnimationTime = t]

SDensityLevel(w) == Min((Min(Abs(w.carZ), SCfg.trackLength * 1000) * 10) \div (SCfg.trackLength * 1000), 10)

SSpawnDue(w, elapsed) ==
  /\ ~w.finishLineCrossed
  /\ elapsed >= 0
  /\ Abs(w.carZ) > 80000
  /\ Abs(w.carZ - w.lastBlockSpawnZ) >= Max(55000, 200000 - SDensityLevel(w) * 7000)

\* block spawning; lane and offset are the two Math.random() draws
SSpawn(w, elapsed, lane, offset) ==
  IF SSpawnDue(w, elapsed)
  THEN [w EXCEPT !.lastBlockSpawnZ = w.carZ,
                 !.finalBlocks = Append(@, [x |-> lanes[lane + 1],
                                            z |-> w.carZ - 80000 - offset,
                                            id |-> w.blockSpawnCount]),
                 !.blockSpawnCount = @ + 1]
  ELSE w

\* the lane choice of the autopilot
SBestLane(info, cur, hit90) ==
  LET s1(b, i) == IF info[i].nearestObstacle > b[2] + 35000
                  THEN <<i, info[i].nearestObstacle>> ELSE b
      a == s1(s1(s1(<<cur, info[cur].nearestObstacle>>, 0), 1), 2)
      s2(b, i) == IF info[i].safe /\ info[i].nearestObstacle > info[cur].nearestObstacle
                  THEN i ELSE b
      b2 == IF ~info[cur].safe THEN s2(s2(s2(a[1], 0), 1), 2) ELSE a[1]
      s3(b, i) == IF info[i].nearestObstacle > info[b].nearestObstacle THEN i ELSE b
      b3 == s3(s3(s3(b2, 0), 1), 2)
  IN IF /\ info[b3].nearestObstacle > 450000
        /\ b3 # 1
        /\ info[1].nearestObstacle > 450000
        /\ hit90
     THEN 1 ELSE b3

\* the autopilot block of a frame (k is deltaFactor)
SAutopilot(w, elapsed, k) ==
  IF elapsed >= 0
  THEN
    LET hit90 == (w.autopilotTimer \div 90) # ((w.autopilotTimer + k) \div 90)
        info == LaneInfo(w, 60000, 800000, 800, 400000)
        bestLane == SBestLane(info, w.currentLaneIndex, hit90)
        brake == \/ EmergencyStop(w, 60000, 800000)
                 \/ (~info[bestLane].safe /\ info[bestLane].nearestObstacle < 120000)
    IN [w EXCEPT
          !.autopilotRef = TRUE, !.wasAutopilot = TRUE,
          !.autopilotTimer = @ + k,
          !.decision = Decision(w, info, bestLane, hit90,
                                Branch(brake, ImmediateObstacleAhead(w, 35000, 100000))),
          !.carVelocity = AutopilotSpeed(@, brake, ImmediateObstacleAhead(w, 35000, 100000),
                                         80, 150, 50, 250, 80),
          !.currentLaneIndex = bestLane,
          !.targetLane = IF bestLane # w.currentLaneIndex THEN lanes[bestLane + 1] ELSE @]
  ELSE w

\* if (autopilotRef.current && deltaFactor > 5) carVelocity = AUTOPILOT_SPEED_UNITS
SFrameSkip(w, k) ==
  IF w.autopilotRef /\ k > 5 THEN [w EXCEPT !.carVelocity = AUTOPILOT_SPEED_UNITS] ELSE w

\* the export of the animation loop once the run is over and hazards remain
SLateExport(w) ==
  IF w.finishLineCrossed /\ Len(w.finalBlocks) > 0
  THEN SetEmbeddedData([w EXCEPT !.finalBlocks = <<>>], FullRecord(w), "animate")
  ELSE w

\* animate(), one frame of deltaFactor k at time t
SAnimate(w, k, t, lane, offset) ==
  LET elapsed == ElapsedSeconds(w, t)
      w0 == [w EXCEPT !.lastAnimationTime = t, !.frameCount = @ + k,
                      !.frames = IF w.gameStartedRef THEN @ + 1 ELSE @,
                      !.idleFrames = IF w.gameStartedRef THEN @ ELSE @ + 1]
      w1 == SLateExport(w0)
      w2 == LogDistanceUnit(w1, SCfg)
      w3 == SSpawn(w2, elapsed, lane, offset)
      w4 == SFrameSkip(SAutopilot(w3, elapsed, k), k)
      w5 == MoveCar(w4, IF w4.autopilotRef THEN 20 ELSE 10, k)
      w6 == TrafficLoop(w5, SCfg, 0, k)
  IN IF w6.finishLineCrossed THEN w6 ELSE BlocksLoop(w6, SCfg, Len(w6.finalBlocks) - 1)

\* the real time of a frame of deltaFactor k that ends at time t, delivered
\* as two frames of half the length (a frame of deltaFactor 1 is not split)
SShortFrames(w, k, t, lane, offset) ==
  IF k < 2 THEN SAnimate(w, k, t, lane, offset)
  ELSE SAnimate(SAnimate(w, k \div 2, t - (k - k \div 2) * QUANTA, lane, offset),
                k - k \div 2, t, lane, offset)

STimePenalty(score) == Max(0, score - 5)

\* the time-based deduction of the timer callback
SDeduct(w, t) ==
  LET last == IF w.lastScoreDeduction = 0 THEN t ELSE w.lastScoreDeduction
  IN IF t - last >= SEC
     THEN [w EXCEPT !.scoreRef = STimePenalty(@), !.lastScoreDeduction = t]
     ELSE [w EXCEPT !.lastScoreDeduction = last]

\* the telemetry of a record
Telemetry(w) ==
  [modeBySecond |-> w.modeBySecond, modeByUnit |-> w.modeByUnit,
   collisionEvents |-> w.collisionEvents]

\* the completion branch of the timer callback
SComplete(w, elapsed, t) ==
  IF elapsed >= 45 /\ ~w.finishLineCrossed
  THEN LET w1 == [w EXCEPT !.finishLineCrossed = TRUE, !.finishLineCrossTime = t,
                            !.finalScore = w.scoreRef, !.isComplete = TRUE,
                            !.timerInterval = FALSE, !.finalBlocks = <<>>,
                            !.atCompletion = Telemetry(w)]
       IN SetEmbeddedData(w1, TimerRecord(w1), "timer")
  ELSE w

\* the timer-interval callback at time t
STimer(w, t) ==
  LET elapsed == (t - w.startTimeRef) \div SEC
      w1 == [w EXCEPT !.timerCalls = @ + 1,
                      !.notificationsShown = @ \cup Triggered(w, elapsed, <<8, 20, 32>>)]
  IN SComplete(SDeduct(LogSecond(w1, elapsed), t), elapsed, t)

SMount ==
  /\ ~s.mounted
  /\ s' = SMountEffect(s, now)
  /\ UNCHANGED <<now, f, n, manual>>

SStartGame ==
  /\ s.mounted /\ s.showInstructions
  /\ s' = StartGame(s)
  /\ UNCHANGED <<now, f, n, manual>>

SCountdown ==
  /\ s.countdownInterval /\ s.count > 0
  /\ now' = now + SEC
  /\ s' = CountdownStep(s)
  /\ UNCHANGED <<f, n, manual>>

SGo ==
  /\ s.goTimeout
  /\ now' = now + 5 * MS100
  /\ s' = GoTimeout(s, now')
  /\ UNCHANGED <<f, n, manual>>

\* animation callbacks left to explore: counted apart before and after the start
FrameBudget(w) == IF w.gameStartedRef THEN w.frames < MaxFrames ELSE w.idleFrames < MaxIdleFrames

\* the callback returns at once before the run has started and after completion
TimerRuns(w) == w.timerInterval /\ w.startTimeRef # 0 /\ w.gameStartedRef /\ ~w.isCompleteRef

STimerInterval ==
  /\ TimerRuns(s) /\ s.timerCalls < MaxTimerCalls
  /\ \E d \in STimerDelays :
       /\ now' = now + d
       /\ s' = STimer(s, now')
  /\ UNCHANGED <<f, n, manual>>

\* one animation callback; the twin of the run starts as a copy of the run
\* after the first frame of the run
SAnimationFrame ==
  /\ s.mounted /\ FrameBudget(s)
  /\ \E d \in SFrameDelays :
       /\ now' = now + d * QUANTA
       /\ now' - s.lastAnimationTime <= SMaxCatchUp * QUANTA
       /\ \E r \in IF SSpawnDue(s, ElapsedSeconds(s, now'))
                   THEN SRandomLanes \X SRandomOffsets ELSE {<<0, 0>>} :
            LET k == (now' - s.lastAnimationTime) \div QUANTA
                frame == SAnimate(s, k, now', r[1], r[2])
            IN s' = [frame EXCEPT
                       !.twin = IF ~s.gameStartedRef THEN @
                                ELSE IF s.frames = 0 THEN frame
                                ELSE SShortFrames(@, k, now', r[1], r[2])]
  /\ UNCHANGED <<f, n, manual>>

\* the effect that copies the isComplete state into its ref after a render
SCommitIsComplete ==
  /\ s.isCompleteRef # s.isComplete
  /\ s' = [s EXCEPT !.isCompleteRef = s.isComplete]
  /\ UNCHANGED <<now, f, n, manual>>

SNext ==
  \/ SMount
  \/ SStartGame
  \/ SCountdown
  \/ SGo
  \/ STimerInterval
  \/ SAnimationFrame
  \/ SCommitIsComplete

InitS == now = 0 /\ s = SInit /\ f = BaseInit /\ n = BaseInit /\ manual = BaseInit

SpecS == InitS /\ [][SNext]_vars

\* The same build when animation callbacks arrive seconds apart: deltaFactor
\* has no upper limit, so the car and the traffic are placed by a few long
\* frames.  The delays of a frame, in fixed steps:
SSparseDelays == {1, 52, 300, 560}

SSparseFrame ==
  /\ s.mounted /\ s.gameStartedRef /\ s.frames < MaxSparseFrames
  /\ \E d \in SSparseDelays :
       /\ now' = now + d * QUANTA
       /\ \E r \in IF SSpawnDue(s, ElapsedSeconds(s, now'))
                   THEN SRandomLanes \X SRandomOffsets ELSE {<<0, 0>>} :
            s' = SAnimate(s, (now' - s.lastAnimationTime) \div QUANTA, now', r[1], r[2])
  /\ UNCHANGED <<f, n, manual>>

SSNext ==
  \/ SMount
  \/ SStartGame
  \/ SCountdown
  \/ SGo
  \/ SSparseFrame

SpecSS == InitS /\ [][SSNext]_vars

-----------------------------------------------------------------------------
\* Claims about driving_simulator.tsx

\* the collision events of a record are spaced by the cooldown window
CooldownRespected(w) ==
  \A i, j \in DOMAIN w.collisionEvents :
    (i < j /\ w.collisionEvents[i].obj = w.collisionEvents[j].obj)
      => w.collisionEvents[j].tick - w.collisionEvents[i].tick > 60

\* C2: any two collision events recorded against the same obstacle are more
\* than 60 ticks apart, also when other hazards leave the live list between
\* the two events (driving_simulator.tsx)
C2_CooldownPerObstacle == CooldownRespected(s)

\* the keys a complete record carries
RecordKeys ==
  {"sim_mode_by_second", "sim_mode_by_unit", "sim_collision_events",
   "sim_white_blocks_hit", "sim_final_score"}

\* C6: the record emitted when the run completes at 45 seconds contains the
\* mode-by-second sequence, the mode-by-distance-unit sequence, the collision
\* event list, the total of hazards hit and the final score
C6_CompletionRecordIsWhole ==
  \A i \in DOMAIN s.exports : RecordKeys \subseteq s.exports[i].keys

\* C14: the velocity and the travelled distance after a given real time are
\* the same whether the time came as many short frames or as fewer long ones
\* (the run is compared with its twin: from the end of the first frame of the
\* run on, the twin gets the time of every frame as two frames of half the
\* length)
C14_FrameRateIndependent ==
  (s.frames >= 2 /\ ~s.finishLineCrossed) =>
     /\ s.carVelocity = s.twin.carVelocity
     /\ s.carZ = s.twin.carZ

\* C16: before the run starts the animation loop changes no world state and
\* records no telemetry: the position of the vehicle, the positions of the
\* ambient traffic, the score, modeByUnit and collisionEvents stay as they
\* were set up
C16_NothingMovesBeforeStart ==
  ~s.gameStartedRef =>
     /\ s.carZ = BaseInit.carZ
     /\ s.otherCars = BaseInit.otherCars
     /\ s.scoreRef = INITIAL_SCORE
     /\ s.modeByUnit = NoUnits
     /\ s.collisionEvents = <<>>

\* C18: once the run is completed at 45 seconds the telemetry is no longer
\* added to: modeBySecond, modeByUnit and collisionEvents keep the content
\* they had at completion through every later frame and timer callback
C18_TelemetryStopsAtCompletion == s.isComplete => Telemetry(s) = s.atCompletion

\* C10: a timer callback that comes N >= 2 whole seconds after the last
\* deduction takes 5*N points (score floored at 0): no elapsed second is dropped
C10_SuspendedSecondsCaughtUp ==
  [][(/\ s'.timerCalls = s.timerCalls + 1
      /\ s.lastScoreDeduction # 0
      /\ (now' - s.lastScoreDeduction) \div SEC >= 2)
       => s'.scoreRef = Max(0, s.scoreRef - 5 * ((now' - s.lastScoreDeduction) \div SEC))]_vars

\* C31: on a tick of the copilot-only build on which the current lane is
\* safe, the autopilot leaves the lane only for a lane whose clearance is
\* more than 35 units greater, or for the center lane on the periodic nudge
C31_LaneChangeNeedsMargin ==
  LET d == s.decision
  IN (d.tick >= 0 /\ d.fromSafe /\ d.lane # d.from) =>
       \/ d.laneNearest > d.fromNearest + 35000
       \/ /\ d.hit90 /\ d.lane = 1
          /\ d.centerNearest > 450000

----------------------------------------------------------------------------
(* Build f: src/unnamed/part_001 (copilot only, fixed step, spawn tables)   *)

\* delays of an animation callback of the model, in quanta
FFrameDelays == {QUANTA, QUANTA + 1}

\* delays of the timer interval of the model
FTimerDelays == {MS100, 15 * MS100, 44 * SEC}

FCfg == [trackLength |-> 7000, penalised |-> FALSE, flash |-> FALSE, guarded |-> TRUE]

\* a second run of the build, taken to the start of the run with no animation
\* callback in between; it then makes the same steps as the run
FTwinStart ==
  GoTimeout(CountdownStep(CountdownStep(CountdownStep(StartGame(
    [BaseInit EXCEPT !.mounted = TRUE, !.autopilotRef = TRUE, !.timerInterval = TRUE,
                     !.lastAnimationTime = 0])))), 35 * MS100)

FInit == [BaseInit EXCEPT !.twin = FTwinStart]

\* the mount effect: refs, the timer interval, the first animate() call,
\* which only takes the time
FMountEffect(w, t) ==
  [w EXCEPT !.mounted = TRUE, !.autopilotRef = TRUE, !.timerInterval = TRUE]

FDensityLevel(w) == Min((Min(Abs(w.carZ), FCfg.trackLength * 1000) * 10) \div (FCfg.trackLength * 1000), 10)

\* block spawning from the lane and offset tables
FSpawn(w, elapsed) ==
  IF /\ ~w.finishLineCrossed
     /\ elapsed >= 0
     /\ Abs(w.carZ) > 100000
     /\ Abs(w.carZ - w.lastBlockSpawnZ) >= Max(70000, 250000 - FDensityLevel(w) * 5000)
  THEN [w EXCEPT !.lastBlockSpawnZ = w.carZ,
                 !.finalBlocks = Append(@,
                    [x |-> lanes[At(<<0, 2, 1>>, w.blockSpawnCount % 3) + 1],
                     z |-> w.carZ - 100000
                             - At(<<5000, 7000, 6000, 8000, 5500, 7500>>, w.blockSpawnCount % 6),
                     id |-> w.blockSpawnCount]),
                 !.blockSpawnCount = @ + 1]
  ELSE w

\* the lane choice of the autopilot
FBestLane(info, cur) ==
  LET s1(b, i) == IF info[i].nearestObstacle > b[2] THEN <<i, info[i].nearestObstacle>> ELSE b
      a == s1(s1(s1(<<cur, info[cur].nearestObstacle>>, 0), 1), 2)[1]
      safeLanes == {i \in 0 .. 2 : info[i].safe}
      b == IF ~info[cur].safe /\ safeLanes # {} THEN SetMin(safeLanes) ELSE a
  IN IF info[1].nearestObstacle > 600000 THEN 1 ELSE b

\* the autopilot block of a step
FAutopilot(w, elapsed) ==
  IF elapsed >= 0 /\ ~w.finishLineCrossed
  THEN
    LET info == LaneInfo(w, 200000, 1000000, 1500, 800000)
        bestLane == FBestLane(info, w.currentLaneIndex)
        brake == \/ EmergencyStop(w, 200000, 1000000)
                 \/ (~info[bestLane].safe /\ info[bestLane].nearestObstacle < 120000)
    IN [w EXCEPT
          !.autopilotRef = TRUE, !.wasAutopilot = TRUE,
          !.carVelocity = AutopilotSpeed(@, brake, ImmediateObstacleAhead(w, 35000, 100000),
                                         80, 150, 50, 250, 80),
          !.currentLaneIndex = bestLane,
          !.targetLane = IF bestLane # w.currentLaneIndex THEN lanes[bestLane + 1] ELSE @]
  ELSE w

\* the export of the animation loop once the run is over and hazards remain
FLateExport(w) ==
  IF w.finishLineCrossed /\ Len(w.finalBlocks) > 0
  THEN SetEmbeddedData([w EXCEPT !.finalBlocks = <<>>], FullRecord(w), "animate")
  ELSE w

\* coasting: five seconds after completion the car slows to a stop
FCoast(w, t) ==
  IF w.finishLineCrossed /\ w.finishLineCrossTime # 0 /\ t - w.finishLineCrossTime >= 5 * SEC
  THEN [w EXCEPT !.carVelocity = Max(0, @ - 20)]
  ELSE w

\* one pass of the fixed-step while loop, in a callback at time t
FTick(w, t) ==
  LET elapsed == ElapsedSeconds(w, t)
      w0 == [w EXCEPT !.frameCount = @ + 1, !.loopTicks = @ + 1,
                      !.runTicks = IF elapsed >= 0 THEN @ + 1 ELSE @]
      w1 == FLateExport(w0)
      w2 == LogDistanceUnit(w1, FCfg)
      w3 == FSpawn(w2, elapsed)
      w4 == FAutopilot(w3, elapsed)
      w5 == MoveCar(w4, IF w4.autopilotRef THEN 35 ELSE 10, 1)
      w6 == TrafficLoop(w5, FCfg, 0, 1)
      w7 == IF w6.finishLineCrossed THEN w6 ELSE BlocksLoop(w6, FCfg, Len(w6.finalBlocks) - 1)
  IN [FCoast(w7, t) EXCEPT !.accumulatedTime = @ - QUANTA,
                           !.inLoop = StepDue(w.accumulatedTime - QUANTA, w.roundedDown)]

\* a first callback that takes one step instead of returning
FAnimateSteppingAtFirst(w, t, down) ==
  IF w.lastAnimationTime = -1
  THEN [w EXCEPT !.lastAnimationTime = t, !.firstAnimationTime = t,
                 !.accumulatedTime = QUANTA, !.inLoop = TRUE]
  ELSE LET sum == w.accumulatedTime + (t - w.lastAnimationTime)
           below == RoundsBelow(sum, down)
       IN [w EXCEPT !.accumulatedTime = sum,
                    !.lastAnimationTime = t,
                    !.roundedDown = below,
                    !.loopTicks = 0,
                    !.inLoop = StepDue(sum, below),
                    !.frames = IF w.gameStartedRef THEN @ + 1 ELSE @,
                    !.idleFrames = IF w.gameStartedRef THEN @ ELSE @ + 1]

\* animate(), the head of one callback at time t. The first callback
\* (lastAnimationTime === null) only takes the time and returns. Every later
\* one adds the real time that has passed to the accumulator; the while loop
\* then runs FTick as long as accumulatedTime >= FIXED_DELTA. down is the
\* rounding of the sum when it is a whole number of steps
FAnimate(w, t, down) ==
  IF w.lastAnimationTime = -1
  THEN [w EXCEPT !.lastAnimationTime = t, !.firstAnimationTime = t]
  ELSE LET sum == w.accumulatedTime + (t - w.lastAnimationTime)
           below == RoundsBelow(sum, down)
       IN [w EXCEPT !.accumulatedTime = sum,
                    !.lastAnimationTime = t,
                    !.roundedDown = below,
                    !.loopTicks = 0,
                    !.inLoop = StepDue(sum, below),
                    !.frames = IF w.gameStartedRef THEN @ + 1 ELSE @,
                    !.idleFrames = IF w.gameStartedRef THEN @ ELSE @ + 1]

\* a catch-up that forgets the fraction of a second left over
FDeductDroppingRemainder(w, t) ==
  LET last == IF w.lastScoreDeduction = 0 THEN t ELSE w.lastScoreDeduction
      timeSinceLastDeduction == t - last
      secondsPassed == timeSinceLastDeduction \div SEC
  IN IF timeSinceLastDeduction >= SEC
     THEN [w EXCEPT !.scoreRef = Max(0, @ - 10 * secondsPassed),
                    !.lastScoreDeduction = t]
     ELSE [w EXCEPT !.lastScoreDeduction = last]

\* the time-based deduction of the timer callback, with its catch-up
FDeduct(w, t) ==
  LET last == IF w.lastScoreDeduction = 0 THEN t ELSE w.lastScoreDeduction
      timeSinceLastDeduction == t - last
      secondsPassed == timeSinceLastDeduction \div SEC
  IN IF timeSinceLastDeduction >= SEC
     THEN [w EXCEPT !.scoreRef = Max(0, @ - 10 * secondsPassed),
                    !.lastScoreDeduction = t - (timeSinceLastDeduction % SEC)]
     ELSE [w EXCEPT !.lastScoreDeduction = last]

\* the completion branch of the timer callback
FComplete(w, elapsed, t) ==
  IF elapsed >= 45 /\ ~w.finishLineCrossed
  THEN LET w1 == [w EXCEPT !.finishLineCrossed = TRUE, !.finishLineCrossTime = t,
                            !.finalScore = w.scoreRef, !.isComplete = TRUE,
                            !.timerInterval = FALSE, !.finalBlocks = <<>>]
       IN SetEmbeddedData(w1, TimerRecord(w1), "timer")
  ELSE w

\* the timer-interval callback at time t
FTimer(w, t) ==
  LET elapsed == (t - w.startTimeRef) \div SEC
      w1 == [w EXCEPT !.timerCalls = @ + 1,
                      !.firstTimerAt = IF w.timerCalls = 0 THEN t ELSE @,
                      !.lastTimerAt = t,
                      !.notificationsShown = @ \cup Triggered(w, elapsed, <<8, 20, 32>>)]
  IN FComplete(FDeduct(LogSecond(w1, elapsed), t), elapsed, t)

FMount ==
  /\ ~f.mounted
  /\ f' = FAnimate(FMountEffect(f, now), now, FALSE)
  /\ UNCHANGED <<now, s, n, manual>>

FStartGame ==
  /\ f.mounted /\ f.showInstructions /\ ~f.inLoop
  /\ f' = StartGame(f)
  /\ UNCHANGED <<now, s, n, manual>>

FCountdown ==
  /\ f.countdownInterval /\ f.count > 0 /\ ~f.inLoop
  /\ now' = now + SEC
  /\ f' = CountdownStep(f)
  /\ UNCHANGED <<s, n, manual>>

FGo ==
  /\ f.goTimeout /\ ~f.inLoop
  /\ now' = now + 5 * MS100
  /\ f' = GoTimeout(f, now')
  /\ UNCHANGED <<s, n, manual>>

\* callbacks left to explore: before the start the animation callbacks are
\* counted, after it the timer and animation callbacks together
CallbackBudget(w) ==
  IF w.gameStartedRef THEN w.frames + w.timerCalls < MaxCallbacks
  ELSE w.idleFrames < MaxIdleFrames

FTimerInterval ==
  /\ TimerRuns(f) /\ CallbackBudget(f) /\ ~f.inLoop
  /\ \E d \in FTimerDelays :
       /\ now' = now + d
       /\ f' = FTimer(f, now')
  /\ UNCHANGED <<s, n, manual>>

FAnimationFrame ==
  /\ f.mounted /\ CallbackBudget(f) /\ ~f.inLoop
  /\ \E d \in FFrameDelays :
       /\ now' = now + d
       /\ now' - f.lastAnimationTime <= MaxCatchUp * QUANTA
       /\ \E down \in BOOLEAN : f' = FAnimate(f, now', down)
  /\ UNCHANGED <<s, n, manual>>

\* one pass of the while loop of the running animation callback
FFixedStep ==
  /\ f.inLoop
  /\ f' = [FTick(f, now) EXCEPT
             !.twin = IF ElapsedSeconds(f, now) >= 0 /\ ~f.finishLineCrossed
                      THEN FTick(@, @.startTimeRef) ELSE @]
  /\ UNCHANGED <<now, s, n, manual>>

\* the effect that copies the isComplete state into its ref after a render
FCommitIsComplete ==
  /\ f.isCompleteRef # f.isComplete /\ ~f.inLoop
  /\ f' = [f EXCEPT !.isCompleteRef = f.isComplete]
  /\ UNCHANGED <<now, s, n, manual>>

FNext ==
  \/ FMount
  \/ FStartGame
  \/ FCountdown
  \/ FGo
  \/ FTimerInterval
  \/ FAnimationFrame
  \/ FFixedStep
  \/ FCommitIsComplete

InitF == now = 0 /\ s = BaseInit /\ f = FInit /\ n = BaseInit /\ manual = BaseInit

SpecF == InitF /\ [][FNext]_vars

\* A run of the build that is suspended right after the start (the machine
\* sleeps, no callback runs) and resumed by an animation callback before the
\* timer callback: the callback makes up for the whole gap

\* the length of the suspension, in quanta
FSuspensions == {95 * SEC}

FResumedFrame ==
  /\ f.mounted /\ f.gameStartedRef /\ f.frames = 0 /\ f.timerCalls = 0 /\ ~f.inLoop
  /\ \E d \in FSuspensions :
       /\ now' = now + d
       /\ \E down \in BOOLEAN : f' = FAnimate(f, now', down)
  /\ UNCHANGED <<s, n, manual>>

FLNext ==
  \/ FMount
  \/ FStartGame
  \/ FCountdown
  \/ FGo
  \/ FResumedFrame
  \/ FFixedStep

SpecFL == InitF /\ [][FLNext]_vars

\* The mount entry point of part_001 (l.1337-1379).  The elements of a page:
\* the element with id 'root', a second element with an id, and an element a
\* caller holds without an id; "null" is no element.
EntryIds == {"root", "sim"}

EntryElements == {"root", "sim", "held"}

\* document.getElementById(id): the elements that have an id are named by it
GetElementById(e, id) == IF id \in e.document THEN id ELSE "null"

\* activeRoot.unmount()
UnmountRoot(e) == [e EXCEPT !.roots[e.activeRoot].unmounted = TRUE]

\* a mountApp that creates the new root without unmounting the one before it
mountAppOverPrevious(e, container) ==
  LET e1 == IF e.activeRoot # 0 /\ e.activeContainer # container
            THEN [e EXCEPT !.activeRoot = 0]
            ELSE e
      e2 == IF e1.activeRoot = 0
            THEN [e1 EXCEPT
                    !.roots = Append(@, [container |-> container,
                                         rendered |-> FALSE, unmounted |-> FALSE]),
                    !.activeRoot = Len(e1.roots) + 1,
                    !.activeContainer = container]
            ELSE e1
  IN [e2 EXCEPT !.roots[e2.activeRoot].rendered = TRUE]

\* mountApp(container)
mountApp(e, container) ==
  LET e1 == IF e.activeRoot # 0 /\ e.activeContainer # container
            THEN [UnmountRoot(e) EXCEPT !.activeRoot = 0]
            ELSE e
      e2 == IF e1.activeRoot = 0
            THEN [e1 EXCEPT
                    !.roots = Append(@, [container |-> container,
                                         rendered |-> FALSE, unmounted |-> FALSE]),
                    !.activeRoot = Len(e1.roots) + 1,
                    !.activeContainer = container]
            ELSE e1
  IN [e2 EXCEPT !.roots[e2.activeRoot].rendered = TRUE]

\* options?.container ?? (options?.containerId ? getElementById(..) : null)
\*   ?? document.getElementById('root')
ResolveContainer(e, container, containerId) ==
  IF container # "null" THEN container
  ELSE IF containerId # "" /\ GetElementById(e, containerId) # "null"
       THEN GetElementById(e, containerId)
  ELSE GetElementById(e, "root")

\* what an entry leaves for the claims
Entered(e, before, op, container) ==
  [e EXCEPT !.last = [op |-> op, container |-> container,
                      root |-> before.activeRoot, from |-> before.activeContainer]]

\* the evaluation of the bundle: the default container is mounted if it exists
EntryLoad(e) ==
  LET defaultContainer == GetElementById(e, "root")
      e1 == IF defaultContainer # "null" THEN mountApp(e, defaultContainer) ELSE e
  IN [Entered(e1, e, "load", defaultContainer) EXCEPT !.loaded = TRUE]

\* window.startDrivingSimulator(options)
startDrivingSimulator(e, container, containerId) ==
  LET resolved == ResolveContainer(e, container, containerId)
      e1 == IF resolved = "null" THEN e ELSE mountApp(e, resolved)
  IN Entered(e1, e, "start", resolved)

\* window.unmountDrivingSimulator()
unmountDrivingSimulator(e) ==
  LET e1 == IF e.activeRoot # 0
            THEN [UnmountRoot(e) EXCEPT !.activeRoot = 0, !.activeContainer = "null"]
            ELSE e
  IN Entered(e1, e, "unmount", "null")

\* a page holds any of the elements with an id when the bundle is evaluated
InitFE ==
  /\ now = 0 /\ s = BaseInit /\ n = BaseInit /\ manual = BaseInit
  /\ \E ids \in SUBSET EntryIds : f = [FInit EXCEPT !.entry.document = ids]

FELoad ==
  /\ ~f.entry.loaded
  /\ f' = [f EXCEPT !.entry = EntryLoad(@)]
  /\ UNCHANGED <<now, s, n, manual>>

FEStartDrivingSimulator ==
  /\ f.entry.loaded /\ f.entry.calls < MaxEntryCalls
  /\ \E container \in EntryElements \cup {"null"},
        containerId \in EntryIds \cup {"", "missing"} :
       f' = [f EXCEPT !.entry = [startDrivingSimulator(@, container, containerId)
                                   EXCEPT !.calls = @ + 1]]
  /\ UNCHANGED <<now, s, n, manual>>

FEUnmountDrivingSimulator ==
  /\ f.entry.loaded /\ f.entry.calls < MaxEntryCalls
  /\ f' = [f EXCEPT !.entry = [unmountDrivingSimulator(@) EXCEPT !.calls = @ + 1]]
  /\ UNCHANGED <<now, s, n, manual>>

FENext ==
  \/ FELoad
  \/ FEStartDrivingSimulator
  \/ FEUnmountDrivingSimulator

SpecFE == InitFE /\ [][FENext]_vars

-----------------------------------------------------------------------------
\* Claims about part_001

\* the collision events as the program records them
Recorded(events) ==
  [i \in DOMAIN events |->
     [unit |-> events[i].unit, mode |-> events[i].mode, lane |-> events[i].lane,
      z |-> events[i].z, type |-> events[i].type]]

\* C7: two runs that have made the same number of steps since the start have
\* the same hazard and ambient-traffic positions and the same collision
\* events, whatever the instructions and the countdown lasted (the run is
\* compared with its twin, which saw no animation callback before the start)
C7_SameStepsSameWorld ==
  (f.gameStartedRef /\ ~f.finishLineCrossed) =>
     /\ f.otherCars = f.twin.otherCars
     /\ f.finalBlocks = f.twin.finalBlocks
     /\ Recorded(f.collisionEvents) = Recorded(f.twin.collisionEvents)

\* C8: every run that reaches completion records finalScore = 550
C8_FinalScoreIs550 == f.isComplete => f.finalScore = INITIAL_SCORE - 45 * 10

\* C9: after every timer callback of the run the time penalty applied so far
\* is 10 times the whole seconds since the first timer callback of the run
\* (score floored at 0), so that N suspended seconds are deducted in one batch
C9_PenaltyIsTenPerWholeSecond ==
  f.timerCalls > 0 =>
    f.scoreRef = Max(0, INITIAL_SCORE - 10 * ((f.lastTimerAt - f.firstTimerAt) \div SEC))

\* a callback came 44 seconds after the first one and took 440 points at once
C9_Witness ==
  /\ f.timerCalls = 2
  /\ f.lastTimerAt - f.firstTimerAt = 44 * SEC
  /\ f.scoreRef = INITIAL_SCORE - 440

\* C12: the first animation callback only records the baseline timestamp: no
\* step is run and the accumulator, the step counter and the world are as they
\* were (the callback is the call of animate() that ends the mount effect,
\* which also sets the refs and the timer interval)
C12_FirstCallbackOnlyTakesTime ==
  [][(f.lastAnimationTime = -1 /\ f'.lastAnimationTime # -1)
       => f' = [FMountEffect(f, now) EXCEPT !.lastAnimationTime = now,
                                            !.firstAnimationTime = now]]_vars

\* the first callback has run: the baseline is taken and no step was made
C12_Witness ==
  /\ f.mounted
  /\ f.lastAnimationTime = f.firstAnimationTime
  /\ f.lastAnimationTime # -1
  /\ f.frameCount = 0 /\ f.accumulatedTime = 0 /\ ~f.inLoop
  /\ f.carZ = 0 /\ f.otherCars = BaseInit.otherCars

\* C13: after every animation callback the steps made are the whole fixed
\* steps in the real time since the first callback, however the time was
\* split into callbacks, and the accumulator holds a remainder that is not
\* negative and smaller than one step
C13_StepsAreWholeStepsElapsed ==
  (f.lastAnimationTime # -1 /\ ~f.inLoop) =>
     /\ f.frameCount = (f.lastAnimationTime - f.firstAnimationTime) \div QUANTA
     /\ f.accumulatedTime >= 0
     /\ (f.accumulatedTime < QUANTA \/ f.roundedDown)

\* C20: modeBySecond holds one entry for every whole second from 0 to the
\* last second logged, in increasing order, with no second missing, also
\* when timer callbacks come late by more than a second
C20_ModeBySecondGapFree ==
  \A i \in DOMAIN f.modeBySecond : f.modeBySecond[i].second = i - 1

\* C28: a tick that registers collisions takes 10 points per collision from
\* the score (not below zero), appends one event per collision, with unit,
\* mode, lane and category, and leaves the cooldown of an obstacle at the tick
C28_CollisionCharged ==
  [][Len(f'.collisionEvents) > Len(f.collisionEvents) =>
       /\ f'.scoreRef = Max(0, f.scoreRef - 10 * (Len(f'.collisionEvents) - Len(f.collisionEvents)))
       /\ \A i \in (Len(f.collisionEvents) + 1) .. Len(f'.collisionEvents) :
            /\ f'.collisionEvents[i].unit = Min(Abs(f'.collisionEvents[i].z) \div 1000, FCfg.trackLength)
            /\ f'.collisionEvents[i].mode \in {"copilot", "manual"}
            /\ f'.collisionEvents[i].lane \in 0 .. 2
            /\ f'.collisionEvents[i].type \in {"traffic", "block"}
       /\ \E key \in DOMAIN f'.collisionCooldown : f'.collisionCooldown[key] = f'.frameCount]_vars

\* the roots that were rendered and not unmounted
LiveRoots(e) ==
  {r \in DOMAIN e.roots : e.roots[r].rendered /\ ~e.roots[r].unmounted}

\* C40: at most one root is live, and it is activeRoot in activeContainer;
\* a start into another container has unmounted the root that was active and
\* made a new one, a start into the same container has kept the root, an
\* unmount leaves no root (and nothing changed if there was none), and a
\* start that resolves no container leaves the root as it was
C40_OneActiveRoot ==
  LET e == f.entry
      last == e.last
  IN /\ LiveRoots(e) = IF e.activeRoot = 0 THEN {} ELSE {e.activeRoot}
     /\ e.activeRoot # 0 => e.roots[e.activeRoot].container = e.activeContainer
     /\ (last.op = "start" /\ last.container # "null") =>
           /\ e.activeRoot # 0 /\ e.activeContainer = last.container
           /\ (last.root # 0 /\ last.from # last.container) =>
                 /\ e.roots[last.root].unmounted
                 /\ e.activeRoot = Len(e.roots) /\ e.activeRoot # last.root
           /\ (last.root # 0 /\ last.from = last.container) =>
                 e.activeRoot = last.root
     /\ (last.op = "start" /\ last.container = "null") =>
           /\ e.activeRoot = last.root
           /\ e.activeContainer = last.from
     /\ last.op = "unmount" =>
           /\ e.activeRoot = 0 /\ e.activeContainer = "null"
           /\ last.root = 0 => last.from = "null"

\* a start has moved the simulator from one container to another
C40_Witness ==
  /\ f.entry.last.op = "start"
  /\ f.entry.last.root # 0
  /\ f.entry.last.container \notin {"null", f.entry.last.from}
  /\ f.entry.roots[f.entry.last.root].unmounted
  /\ LiveRoots(f.entry) = {f.entry.activeRoot}

----------------------------------------------------------------------------
(* Build n: src/unnamed/part_000 lines 1129-3186 (notifications, fixed step) *)

\* delays of an animation callback of the model, in quanta
NFrameDelays == {QUANTA + 1}

\* delays of the timer interval of the model
NTimerDelays == {9 * SEC, 60 * SEC}

TRACK_LENGTH == 6500

MANUAL_MAX_VELOCITY == 1000

AUTOPILOT_BLIND_DISTANCE == 1000

baseBlockSpawnDistance == 140

NCfg == [trackLength |-> TRACK_LENGTH, penalised |-> TRUE, flash |-> FALSE, guarded |-> TRUE]

NInit == BaseInit

\* the mount effects: refs, the timer interval, the first animate() call,
\* which only takes the time
NMountEffect(w, t) ==
  [w EXCEPT !.mounted = TRUE, !.autopilotRef = w.isAutopilot, !.timerInterval = TRUE]

\* a startGame that leaves the instructions, and its button, on the screen
NStartGameKeepingInstructions(w) ==
  [StartGame(w) EXCEPT !.showInstructions = TRUE,
                       !.isAutopilot = TRUE, !.autopilotPendingRef = FALSE,
                       !.notifications = <<>>, !.simNotifications = <<>>]

\* startGame of the notification build
NStartGame(w) ==
  [StartGame(w) EXCEPT !.isAutopilot = TRUE, !.autopilotPendingRef = FALSE,
                       !.notifications = <<>>, !.simNotifications = <<>>,
                       !.showViewAllNotificationsPopup = FALSE,
                       !.selectedNotification = -1]

\* The isAutopilot that the handlers of the last render closed over.  The
\* commit that re-creates the handlers also runs the effect that copies the
\* state into autopilotRef, and the handlers that write autopilotRef
\* themselves (startGame, handleToggleAutopilot) write the same value into the
\* state: the value the handlers see is the value of autopilotRef.  It lags
\* behind the state after the setIsAutopilot(true) of an animation callback
\* until the render that follows.
RenderedIsAutopilot(w) == w.autopilotRef

\* handleToggleAutopilot
NToggle(w) ==
  IF RenderedIsAutopilot(w) \/ w.autopilotPendingRef
  THEN [w EXCEPT !.isAutopilot = FALSE, !.autopilotRef = FALSE, !.autopilotPendingRef = FALSE]
  ELSE [w EXCEPT !.autopilotPendingRef = TRUE]

\* the click on the icon of notification i: it is selected (its full view
\* opens) and marked seen
NClick(w, i) ==
  [w EXCEPT !.notifications[i].seen = TRUE,
            !.selectedNotification = w.notifications[i].index]

\* the close button of the full view, or a click beside it
NClose(w) == [w EXCEPT !.selectedNotification = -1]

\* the effect on selectedNotification, run at time t: a notification that was
\* selected gets a new open session unless its last one is still open; when
\* none is selected every open session is closed and its duration added.
\* Times are quanta since the start; closeTime -1 is null
NTrackOpenClose(w, t) ==
  LET currentTime == t - w.startTimeRef
      running == w.gameStartedRef /\ w.startTimeRef # 0
      hasOpenSession(x) == Len(x.openSessions) > 0
                             /\ x.openSessions[Len(x.openSessions)].closeTime = -1
      opened(x) == IF x.index = w.selectedNotification /\ ~hasOpenSession(x)
                   THEN [x EXCEPT !.openSessions =
                           Append(@, [openTime |-> currentTime, closeTime |-> -1])]
                   ELSE x
      closed(x) == IF hasOpenSession(x) /\ running
                   THEN [x EXCEPT
                           !.openSessions[Len(x.openSessions)].closeTime = currentTime,
                           !.totalOpenDuration =
                              @ + (currentTime - x.openSessions[Len(x.openSessions)].openTime)]
                   ELSE x
  IN [w EXCEPT !.selectedCommitted = w.selectedNotification,
               !.notifications =
                  IF w.selectedNotification # -1 /\ running
                  THEN [i \in DOMAIN @ |-> opened(@[i])]
                  ELSE IF w.selectedNotification = -1
                  THEN [i \in DOMAIN @ |-> closed(@[i])]
                  ELSE @]

\* currentNotifications.length > 0 && currentNotifications.every(n => n.seen)
AllNotificationsSeen(w) ==
  /\ Len(w.notifications) > 0
  /\ \A i \in DOMAIN w.notifications : w.notifications[i].seen

NBlock(w, x, spawnDistance, offset) ==
  [x |-> x, z |-> w.carZ - spawnDistance - offset, id |-> w.blockSpawnCount]

\* distanceToFinish = carGroup.position.z - finishLineZ
DistanceToFinish(w) == w.carZ + TRACK_LENGTH * 1000

\* the spawn before the blind distance
NSpawnFar(w) ==
  IF /\ DistanceToFinish(w) > AUTOPILOT_BLIND_DISTANCE * 1000
     /\ Abs(w.carZ) > 80000
     /\ Abs(w.carZ - w.lastBlockSpawnZ) >= baseBlockSpawnDistance * 1000
  THEN [w EXCEPT !.lastBlockSpawnZ = w.carZ,
                 !.finalBlocks = Append(@,
                    NBlock(w, lanes[At(<<0, 2, 1>>, w.blockSpawnCount % 3) + 1], 80000,
                           At(<<3000, 5000, 4000, 6000, 3500, 5500>>, w.blockSpawnCount % 6))),
                 !.blockSpawnCount = @ + 1]
  ELSE w

\* the spawn inside the blind distance; the lane index is the x coordinate
NSpawnLate(w) ==
  IF /\ DistanceToFinish(w) <= AUTOPILOT_BLIND_DISTANCE * 1000
     /\ DistanceToFinish(w) > 300000
     /\ Abs(w.carZ - w.lastLateBlockSpawnZ) >= baseBlockSpawnDistance * 1000
  THEN [w EXCEPT !.lastLateBlockSpawnZ = w.carZ,
                 !.finalBlocks = Append(@,
                    NBlock(w, (w.blockSpawnCount % 3) * 1000, 70000,
                           At(<<3500, 5000, 4500, 6000, 4000, 5500>>, w.blockSpawnCount % 6))),
                 !.blockSpawnCount = @ + 1]
  ELSE w

\* the spawn of the last 300 units
NSpawnBurst(w, elapsed) ==
  IF /\ ~w.finishLineCrossed /\ elapsed >= 0
     /\ DistanceToFinish(w) > 0 /\ DistanceToFinish(w) < 300000
     /\ Abs(w.carZ - w.lastFinishBurstSpawnZ) >= baseBlockSpawnDistance * 1000
  THEN [w EXCEPT !.lastFinishBurstSpawnZ = w.carZ,
                 !.finalBlocks = Append(@,
                    NBlock(w, lanes[(w.blockSpawnCount % 3) + 1], 80000,
                           At(<<3000, 5000, 4000, 6000, 3500, 5500>>, w.blockSpawnCount % 6))),
                 !.blockSpawnCount = @ + 1]
  ELSE w

NSpawn(w, elapsed) ==
  NSpawnBurst(IF ~w.finishLineCrossed /\ elapsed >= 0 THEN NSpawnLate(NSpawnFar(w)) ELSE w,
              elapsed)

\* a pending autopilot request engages when no obstacle is too close
NPending(w, elapsed) ==
  IF ~w.autopilotRef /\ w.autopilotPendingRef /\ elapsed >= 0
  THEN LET obs == Obstacles(w)
           obstacleTooClose ==
             \E j \in 1 .. Len(obs) :
               /\ obs[j].z - w.carZ < 15000
               /\ obs[j].z - w.carZ > -60000
               /\ Abs(obs[j].x - w.carLaneOffset) < 1500
       IN IF ~obstacleTooClose
          THEN [w EXCEPT !.autopilotPendingRef = FALSE, !.isAutopilot = TRUE]
          ELSE w
  ELSE w

\* a lane choice that never leaves the current lane
NBestLaneStaying(info, cur) == cur

\* the lane choice of the autopilot
NBestLane(info, cur) ==
  LET s1(b, i) == IF info[i].nearestObstacle > b[2] THEN <<i, info[i].nearestObstacle>> ELSE b
      a == s1(s1(s1(<<cur, info[cur].nearestObstacle>>, 0), 1), 2)[1]
      safeLanes == {i \in 0 .. 2 : info[i].safe}
      b == IF ~info[cur].safe /\ safeLanes # {} THEN SetMin(safeLanes) ELSE a
  IN IF info[1].nearestObstacle > 800000 /\ info[b].nearestObstacle > 800000 THEN 1 ELSE b

\* the autopilot branch of a step, given laneInfo, the lane selected and
\* immediateObstacleAhead
NAutopilotDecided(w, info, bestLane, immediate) ==
  LET brake == ~info[bestLane].safe /\ info[bestLane].nearestObstacle < 60000
  IN [w EXCEPT
        !.wasAutopilot = TRUE,
        !.decision = Decision(w, info, bestLane, FALSE, Branch(brake, immediate)),
        !.carVelocity = AutopilotSpeed(@, brake, immediate, 60, 200, 20, 400, 50),
        !.currentLaneIndex = bestLane,
        !.targetLane = IF bestLane # w.currentLaneIndex THEN lanes[bestLane + 1] ELSE @]

NAutopilotScanned(w, info) ==
  NAutopilotDecided(w, info, NBestLane(info, w.currentLaneIndex),
                    ImmediateObstacleAhead(w, 30000, 80000))

\* the autopilot branch of a step
NAutopilot(w) == NAutopilotScanned(w, LaneInfo(w, 300000, 1200000, 2000, 1000000))

\* the keys of the Keys object
KeyNames == {"ArrowUp", "ArrowDown", "ArrowLeft", "ArrowRight"}

\* handleKeyDown for a key of keys; held is the key itself (an event for a
\* key that is already down is the keyboard's auto-repeat), pressShifts the
\* lane shifts made since the key went down
handleKeyDown(w, key) ==
  [w EXCEPT !.keys[key] = TRUE,
            !.held[key] = TRUE,
            !.pressShifts = IF key \in DOMAIN @ /\ ~w.held[key]
                            THEN [@ EXCEPT ![key] = 0] ELSE @]

\* handleKeyUp for a key of keys
handleKeyUp(w, key) == [w EXCEPT !.keys[key] = FALSE, !.held[key] = FALSE]

\* a manual branch that takes over the speed of the autopilot as it is
NManualKeepingSpeed(w) ==
  IF w.gameStartedRef
  THEN
    LET v0 == w.carVelocity
        v1 == IF v0 < MANUAL_MAX_VELOCITY THEN Min(v0 + 5, MANUAL_MAX_VELOCITY) ELSE v0
        v2 == IF w.keys.ArrowUp THEN Min(v1 + 8, MANUAL_MAX_VELOCITY) ELSE v1
        v3 == IF w.keys.ArrowDown THEN Max(v2 - 25, 0) ELSE v2
        left == w.keys.ArrowLeft /\ w.currentLaneIndex > 0
        l1 == IF left THEN w.currentLaneIndex - 1 ELSE w.currentLaneIndex
        right == w.keys.ArrowRight /\ l1 < 2
        l2 == IF right THEN l1 + 1 ELSE l1
    IN [w EXCEPT !.wasAutopilot = FALSE, !.carVelocity = v3,
                 !.switchVelocity = IF w.wasAutopilot THEN w.carVelocity ELSE @,
                 !.currentLaneIndex = l2,
                 !.targetLane = IF left \/ right THEN lanes[l2 + 1] ELSE @,
                 !.keys.ArrowLeft = IF left THEN FALSE ELSE @,
                 !.keys.ArrowRight = IF right THEN FALSE ELSE @,
                 !.pressShifts.ArrowLeft = IF left THEN @ + 1 ELSE @,
                 !.pressShifts.ArrowRight = IF right THEN @ + 1 ELSE @]
  ELSE [w EXCEPT !.carVelocity = 0]

\* the manual branch of a step; switchVelocity keeps, for the claims, the
\* velocity the autopilot handed over
NManual(w) ==
  IF w.gameStartedRef
  THEN
    LET v0 == IF w.wasAutopilot THEN Min(w.carVelocity, MANUAL_MAX_VELOCITY) ELSE w.carVelocity
        v1 == IF v0 < MANUAL_MAX_VELOCITY THEN Min(v0 + 5, MANUAL_MAX_VELOCITY) ELSE v0
        v2 == IF w.keys.ArrowUp THEN Min(v1 + 8, MANUAL_MAX_VELOCITY) ELSE v1
        v3 == IF w.keys.ArrowDown THEN Max(v2 - 25, 0) ELSE v2
        left == w.keys.ArrowLeft /\ w.currentLaneIndex > 0
        l1 == IF left THEN w.currentLaneIndex - 1 ELSE w.currentLaneIndex
        right == w.keys.ArrowRight /\ l1 < 2
        l2 == IF right THEN l1 + 1 ELSE l1
    IN [w EXCEPT !.wasAutopilot = FALSE, !.carVelocity = v3,
                 !.switchVelocity = IF w.wasAutopilot THEN w.carVelocity ELSE @,
                 !.currentLaneIndex = l2,
                 !.targetLane = IF left \/ right THEN lanes[l2 + 1] ELSE @,
                 !.keys.ArrowLeft = IF left THEN FALSE ELSE @,
                 !.keys.ArrowRight = IF right THEN FALSE ELSE @,
                 !.pressShifts.ArrowLeft = IF left THEN @ + 1 ELSE @,
                 !.pressShifts.ArrowRight = IF right THEN @ + 1 ELSE @]
  ELSE [w EXCEPT !.carVelocity = 0]

\* the eleven keys the notification build exports
NRecord(w) ==
  [sim_mode_by_second |-> w.modeBySecond,
   sim_white_blocks_hit |-> w.whiteBlocksHit,
   sim_failure_lane_hits |-> 0,
   sim_mode_by_unit |-> w.modeByUnit,
   sim_collision_events |-> w.collisionEvents,
   sim_final_score |-> w.finalScore,
   sim_finish_line_cross_second |-> w.finishLineCrossTime - w.startTimeRef,
   sim_notifications |-> w.simNotifications,
   sim_notifications_total |-> Len(w.simNotifications),
   sim_notifications_seen |-> Cardinality({i \in DOMAIN w.simNotifications :
                                             w.simNotifications[i].seen}),
   sim_notifications_open_duration |->
      [i \in DOMAIN w.simNotifications |->
         [index |-> w.simNotifications[i].index,
          totalOpenDuration |-> w.simNotifications[i].totalOpenDuration,
          openSessions |-> w.simNotifications[i].openSessions]]]

\* the export at the head of a step once the line is crossed and hazards remain
NEarlyExport(w) ==
  IF w.finishLineCrossed /\ Len(w.finalBlocks) > 0
  THEN LET w1 == [w EXCEPT !.finalBlocks = <<>>, !.flashTimeouts = {},
                           !.simNotifications = IF Len(@) = 0 THEN w.notifications ELSE @]
       IN SetEmbeddedData(w1, NRecord(w1), "head")
  ELSE w

\* ensureModeByUnitComplete
EnsureModeByUnitComplete(w) ==
  IF w.lastDistanceUnitLoggedRef >= TRACK_LENGTH THEN w
  ELSE [w EXCEPT !.modeByUnit = FillUnits(@, w.lastDistanceUnitLoggedRef + 1, TRACK_LENGTH,
                                          ModeLabel(w)),
                 !.lastDistanceUnitLoggedRef = TRACK_LENGTH]

\* what the claims compare between two executions of the finalization
Finalized(w) ==
  [modeByUnit |-> w.modeByUnit, collisionEvents |-> w.collisionEvents,
   whiteBlocksHit |-> w.whiteBlocksHit, score |-> w.scoreRef, finalScore |-> w.finalScore]

\* a finalization that charges a collision penalty before it takes the score
NFinalizeCharging(w, by) ==
  LET w0 == [w EXCEPT !.scoreRef = CollisionPenalty(@)]
      w1 == EnsureModeByUnitComplete([w0 EXCEPT !.finalScore = w0.scoreRef])
      w2 == [w1 EXCEPT !.simNotifications = w.notifications]
      w3 == [SetEmbeddedData(w2, NRecord(w2), by) EXCEPT
               !.finalBlocks = <<>>, !.isComplete = TRUE, !.timerInterval = FALSE,
               !.showViewAllNotificationsPopup = FALSE]
  IN [w3 EXCEPT !.finalizations = @ + 1,
                !.finalFirst = IF w.finalizations = 0 THEN Finalized(w3) ELSE @,
                !.finalSame = IF w.finalizations = 0 THEN @
                              ELSE @ /\ Finalized(w3) = w.finalFirst]

\* the body of the completion branches: the record is finalized and exported,
\* the hazards are removed, isComplete is set, the timer interval is cleared;
\* finalizations, finalFirst and finalSame keep, for the claims, how often
\* the body ran, what the first execution left, and whether every later
\* execution left the same
NFinalize(w, by) ==
  LET w1 == EnsureModeByUnitComplete([w EXCEPT !.finalScore = w.scoreRef])
      w2 == [w1 EXCEPT !.simNotifications = w.notifications]
      w3 == [SetEmbeddedData(w2, NRecord(w2), by) EXCEPT
               !.finalBlocks = <<>>, !.isComplete = TRUE, !.timerInterval = FALSE,
               !.showViewAllNotificationsPopup = FALSE]
  IN [w3 EXCEPT !.finalizations = @ + 1,
                !.finalFirst = IF w.finalizations = 0 THEN Finalized(w3) ELSE @,
                !.finalSame = IF w.finalizations = 0 THEN @
                              ELSE @ /\ Finalized(w3) = w.finalFirst]

\* a finish line that completes the run whatever the notifications
NFinishCheckIgnoringSeen(w, t) ==
  IF w.carZ <= 0 - TRACK_LENGTH * 1000 /\ ~w.isCompleteRef /\ ~w.finishLineCrossed
  THEN NFinalize([w EXCEPT !.finishLineCrossed = TRUE, !.finishLineCrossTime = t], "crossing")
  ELSE w

\* the finish line: crossing, and completion when all notifications are seen;
\* otherwise the reminder to view them is shown
NFinishCheck(w, t) ==
  IF w.carZ <= 0 - TRACK_LENGTH * 1000 /\ ~w.isCompleteRef /\ ~w.finishLineCrossed
  THEN LET w1 == [w EXCEPT !.finishLineCrossed = TRUE, !.finishLineCrossTime = t]
       IN IF AllNotificationsSeen(w1) THEN NFinalize(w1, "crossing")
          ELSE [w1 EXCEPT !.showViewAllNotificationsPopup = TRUE]
  ELSE w

\* a run that completes on the crossing tick or never
NLateCheckSkipped(w) == w

\* after the crossing: completion once all notifications are seen
NLateCheck(w) ==
  IF w.finishLineCrossed /\ ~w.isCompleteRef /\ AllNotificationsSeen(w)
  THEN NFinalize(w, "after")
  ELSE w

\* five seconds after the crossing the car of a completed run stops
NStop(w, t) ==
  IF /\ w.finishLineCrossed /\ w.finishLineCrossTime # 0 /\ w.isCompleteRef
     /\ t - w.finishLineCrossTime >= 5 * SEC
  THEN [w EXCEPT !.carVelocity = 0]
  ELSE w

\* one pass of the fixed-step while loop, in a callback at time t
NTick(w, t) ==
  LET elapsed == ElapsedSeconds(w, t)
      w0 == [w EXCEPT !.frameCount = @ + 1, !.loopTicks = @ + 1,
                      !.runTicks = IF elapsed >= 0 THEN @ + 1 ELSE @]
      w1 == NEarlyExport(w0)
      w2 == LogDistanceUnit(w1, NCfg)
      w3 == NSpawn(w2, elapsed)
      w4 == NPending(w3, elapsed)
      w5 == IF w4.autopilotRef /\ elapsed >= 0 /\ ~w4.finishLineCrossed
            THEN NAutopilot(w4) ELSE NManual(w4)
      w6 == MoveCar(w5, IF w5.autopilotRef THEN 20 ELSE 10, 1)
      w7 == TrafficLoop(w6, NCfg, 0, 1)
      w8 == IF w7.finishLineCrossed THEN w7 ELSE BlocksLoop(w7, NCfg, Len(w7.finalBlocks) - 1)
      w9 == NStop(NLateCheck(NFinishCheck(w8, t)), t)
      done == IF w.gameStartedRef THEN w9 ELSE [w0 EXCEPT !.carVelocity = 0]
  IN [done EXCEPT !.accumulatedTime = @ - QUANTA,
                  !.inLoop = StepDue(w.accumulatedTime - QUANTA, w.roundedDown)]

\* animate(), the head of one callback at time t: the first callback only
\* takes the time; down is the rounding of a sum that is a whole number of
\* steps
NAnimate(w, t, down) ==
  IF w.lastAnimationTime = -1
  THEN [w EXCEPT !.lastAnimationTime = t, !.firstAnimationTime = t]
  ELSE LET sum == w.accumulatedTime + (t - w.lastAnimationTime)
           below == RoundsBelow(sum, down)
       IN [w EXCEPT !.accumulatedTime = sum,
                    !.lastAnimationTime = t,
                    !.roundedDown = below,
                    !.loopTicks = 0,
                    !.inLoop = StepDue(sum, below),
                    !.frames = IF w.gameStartedRef THEN @ + 1 ELSE @,
                    !.idleFrames = IF w.gameStartedRef THEN @ ELSE @ + 1]

\* NOTIFICATION_1_TIME .. NOTIFICATION_5_TIME, in seconds of the run
notificationTimes == <<9, 18, 27, 36, 45>>

\* a timer that pays the driver for the time
NTimeBonus(score) == score + 5

NTimePenalty(score) == Max(0, score - 5)

\* the time-based deduction of the timer callback; timeDeductions counts, for
\* the claims, the deductions made
NDeduct(w, t) ==
  LET last == IF w.lastScoreDeduction = 0 THEN t ELSE w.lastScoreDeduction
  IN IF t - last >= SEC
     THEN [w EXCEPT !.scoreRef = NTimePenalty(@), !.lastScoreDeduction = t,
                    !.timeDeductions = @ + 1]
     ELSE [w EXCEPT !.lastScoreDeduction = last]

\* the notifications that arrive in a timer callback, appended unseen
RECURSIVE NNotify(_, _)
NNotify(w, arrived) ==
  IF arrived = {} THEN w
  ELSE LET i == SetMin(arrived)
       IN NNotify([w EXCEPT !.notificationsShown = @ \cup {i},
                            !.notifications = Append(@,
                               [index |-> i, seen |-> FALSE,
                                openSessions |-> <<>>, totalOpenDuration |-> 0])],
                  arrived \ {i})

\* the timer-interval callback at time t
NTimer(w, t) ==
  LET elapsed == (t - w.startTimeRef) \div SEC
      w1 == [w EXCEPT !.timerCalls = @ + 1,
                      !.firstTimerAt = IF w.timerCalls = 0 THEN t ELSE @,
                      !.lastTimerAt = t]
      w2 == NNotify(w1, Triggered(w1, elapsed, notificationTimes))
  IN NDeduct(LogSecond(w2, elapsed), t)

\* the cleanup of the main effect: cancelAnimationFrame, clearInterval of the
\* timer and of the countdown, clearTimeout of the score flash; the timeout
\* set at GO is not held in any ref and stays pending
NTeardown(w) ==
  [w EXCEPT !.torn = TRUE, !.timerInterval = FALSE, !.countdownInterval = FALSE]

NMount ==
  /\ ~n.mounted
  /\ n' = NAnimate(NMountEffect(n, now), now, FALSE)
  /\ UNCHANGED <<now, s, f, manual>>

\* the component is unmounted, between two callbacks
NUnmount ==
  /\ n.mounted /\ ~n.torn /\ ~n.inLoop
  /\ n' = NTeardown(n)
  /\ UNCHANGED <<now, s, f, manual>>

NStartGameClick ==
  /\ n.mounted /\ ~n.torn /\ n.showInstructions /\ ~n.inLoop
  /\ n' = NStartGame(n)
  /\ UNCHANGED <<now, s, f, manual>>

NCountdown ==
  /\ n.countdownInterval /\ n.count > 0 /\ ~n.inLoop
  /\ now' = now + SEC
  /\ n' = CountdownStep(n)
  /\ UNCHANGED <<s, f, manual>>

NGo ==
  /\ n.goTimeout /\ ~n.inLoop
  /\ now' = now + 5 * MS100
  /\ n' = GoTimeout(n, now')
  /\ UNCHANGED <<s, f, manual>>

\* callbacks left to explore: the animation callbacks before the start, and
\* the timer and animation callbacks after it, are counted together; a run
\* that has crossed the finish line is followed for MaxLateCallbacks more
NCallbackBudget(w) ==
  w.idleFrames + w.frames + w.timerCalls
    < MaxCallbacks + (IF w.finishLineCrossed THEN MaxLateCallbacks ELSE 0)

NTimerInterval ==
  /\ TimerRuns(n) /\ NCallbackBudget(n) /\ ~n.inLoop
  /\ \E d \in NTimerDelays :
       /\ now' = now + d
       /\ n' = NTimer(n, now')
  /\ UNCHANGED <<s, f, manual>>

NAnimationFrame ==
  /\ n.mounted /\ ~n.torn /\ NCallbackBudget(n) /\ ~n.inLoop
  /\ \E d \in NFrameDelays :
       /\ now' = now + d
       /\ \E down \in BOOLEAN : n' = NAnimate(n, now', down)
  /\ UNCHANGED <<s, f, manual>>

\* one pass of the while loop of the running animation callback
NFixedStep ==
  /\ n.inLoop
  /\ n' = NTick(n, now)
  /\ UNCHANGED <<now, s, f, manual>>

\* user inputs are explored during the run, up to MaxInputs of them
InputBudget(w) == w.gameStartedRef /\ ~w.torn /\ ~w.inLoop /\ w.inputs < MaxInputs

\* a click on the mode button
NToggleAutopilot ==
  /\ InputBudget(n) /\ ~n.isComplete
  /\ n' = [NToggle(n) EXCEPT !.inputs = @ + 1]
  /\ UNCHANGED <<now, s, f, manual>>

\* a click on the icon of a notification that is not the selected one
NClickNotification ==
  /\ InputBudget(n)
  /\ \E i \in DOMAIN n.notifications :
       /\ n.notifications[i].index # n.selectedNotification
       /\ n' = [NClick(n, i) EXCEPT !.inputs = @ + 1]
  /\ UNCHANGED <<now, s, f, manual>>

\* the full view of the selected notification is closed
NCloseNotification ==
  /\ InputBudget(n) /\ n.selectedNotification # -1
  /\ n' = [NClose(n) EXCEPT !.inputs = @ + 1]
  /\ UNCHANGED <<now, s, f, manual>>

\* the effect that follows a change of selectedNotification
NCommitSelectedNotification ==
  /\ n.selectedCommitted # n.selectedNotification /\ ~n.torn /\ ~n.inLoop
  /\ n' = NTrackOpenClose(n, now)
  /\ UNCHANGED <<now, s, f, manual>>

\* the effects that copy the isComplete and isAutopilot states into their refs
NCommitIsComplete ==
  /\ n.isCompleteRef # n.isComplete /\ ~n.torn /\ ~n.inLoop
  /\ n' = [n EXCEPT !.isCompleteRef = n.isComplete]
  /\ UNCHANGED <<now, s, f, manual>>

NCommitIsAutopilot ==
  /\ n.autopilotRef # n.isAutopilot /\ ~n.torn /\ ~n.inLoop
  /\ n' = [n EXCEPT !.autopilotRef = n.isAutopilot]
  /\ UNCHANGED <<now, s, f, manual>>

NNext ==
  \/ NMount
  \/ NUnmount
  \/ NStartGameClick
  \/ NCountdown
  \/ NGo
  \/ NTimerInterval
  \/ NAnimationFrame
  \/ NFixedStep
  \/ NToggleAutopilot
  \/ NClickNotification
  \/ NCloseNotification
  \/ NCommitSelectedNotification
  \/ NCommitIsComplete
  \/ NCommitIsAutopilot

InitN == now = 0 /\ s = BaseInit /\ f = BaseInit /\ n = NInit /\ manual = BaseInit

SpecN == InitN /\ [][NNext]_vars

\* Runs of the notification build driven by the keyboard: the animation
\* callbacks come after the start, the first one 3.5 s after the mount and
\* the others a frame apart, with key events and clicks on the mode button
\* between them; the timer callback is left to SpecN

\* delays of an animation callback of these runs, in quanta
NKFrameDelays == {QUANTA + 1}

NKAnimationFrame ==
  /\ n.mounted /\ ~n.torn /\ ~n.inLoop
  /\ n.gameStartedRef /\ n.frames < MaxKeyFrames
  /\ \E d \in NKFrameDelays :
       /\ now' = now + d
       /\ \E down \in BOOLEAN : n' = NAnimate(n, now', down)
  /\ UNCHANGED <<s, f, manual>>

\* key events are explored during the run, up to MaxKeyInputs of them
KeyBudget(w) == w.gameStartedRef /\ ~w.torn /\ ~w.inLoop /\ w.keyInputs < MaxKeyInputs

\* a key goes down, or the keyboard repeats a key that is held down
NKeyDown ==
  /\ KeyBudget(n)
  /\ \E key \in KeyNames : n' = [handleKeyDown(n, key) EXCEPT !.keyInputs = @ + 1]
  /\ UNCHANGED <<now, s, f, manual>>

\* a key that is down is released
NKeyUp ==
  /\ KeyBudget(n)
  /\ \E key \in KeyNames :
       /\ n.held[key]
       /\ n' = [handleKeyUp(n, key) EXCEPT !.keyInputs = @ + 1]
  /\ UNCHANGED <<now, s, f, manual>>

NKNext ==
  \/ NMount
  \/ NStartGameClick
  \/ NCountdown
  \/ NGo
  \/ NKAnimationFrame
  \/ NFixedStep
  \/ NToggleAutopilot
  \/ NKeyDown
  \/ NKeyUp
  \/ NCommitIsAutopilot

SpecNK == InitN /\ [][NKNext]_vars

\* The runs of the notification build that are driven by the mode button
NTToggleAutopilot ==
  /\ n.gameStartedRef /\ ~n.torn /\ ~n.inLoop /\ ~n.isComplete
  /\ n.inputs < MaxToggles
  /\ n' = [NToggle(n) EXCEPT !.inputs = @ + 1]
  /\ UNCHANGED <<now, s, f, manual>>

NTNext ==
  \/ NMount
  \/ NStartGameClick
  \/ NCountdown
  \/ NGo
  \/ NKAnimationFrame
  \/ NFixedStep
  \/ NTToggleAutopilot
  \/ NCommitIsAutopilot

SpecNT == InitN /\ [][NTNext]_vars

\* The runs of the notification build in which the driver takes the car over,
\* steers and brakes with the keyboard and hands it back: callbacks that
\* arrive a third of a second apart, the first of them possibly three seconds
\* late, each after the render that the callback before it asked for has been
\* committed, and the keys that steer to the left and brake.
NHFrameDelays(w) ==
  IF w.frames = 0 THEN {20 * QUANTA, 186 * QUANTA} ELSE {20 * QUANTA}

NHKeyNames == {"ArrowDown", "ArrowLeft"}

NHKeyDown ==
  /\ KeyBudget(n)
  /\ \E key \in NHKeyNames :
       /\ ~n.held[key]
       /\ n' = [handleKeyDown(n, key) EXCEPT !.keyInputs = @ + 1]
  /\ UNCHANGED <<now, s, f, manual>>

NHAnimationFrame ==
  /\ n.mounted /\ ~n.torn /\ ~n.inLoop
  /\ n.gameStartedRef /\ n.frames < MaxHandoverFrames
  /\ n.autopilotRef = n.isAutopilot
  /\ \E d \in NHFrameDelays(n) :
       /\ now' = now + d
       /\ \E down \in BOOLEAN : n' = NAnimate(n, now', down)
  /\ UNCHANGED <<s, f, manual>>

NHNext ==
  \/ NMount
  \/ NStartGameClick
  \/ NCountdown
  \/ NGo
  \/ NHAnimationFrame
  \/ NFixedStep
  \/ NTToggleAutopilot
  \/ NHKeyDown
  \/ NCommitIsAutopilot

SpecNH == InitN /\ [][NHNext]_vars

\* The runs of the notification build that are left to the autopilot, with
\* animation callbacks that keep arriving until the finish line is crossed
\* (requestAnimationFrame is re-armed at the head of every callback, and the
\* while loop of a callback runs to its end).  The delays of a callback:
NAFrameDelays == {QUANTA + 1}

NAAnimationFrame ==
  /\ n.mounted /\ ~n.torn /\ ~n.inLoop
  /\ n.gameStartedRef /\ ~n.finishLineCrossed
  /\ \E d \in NAFrameDelays :
       /\ now' = now + d
       /\ \E down \in BOOLEAN : n' = NAnimate(n, now', down)
  /\ UNCHANGED <<s, f, manual>>

NANext ==
  \/ NMount
  \/ NStartGameClick
  \/ NCountdown
  \/ NGo
  \/ NAAnimationFrame
  \/ NFixedStep

\* The while loop of a callback runs whenever a step is due: weak fairness
\* of NFixedStep, written out with the loop's condition as what enables it.
NLoopFairness ==
  \/ []<>(~n.inLoop)
  \/ []<><<NFixedStep>>_vars

SpecNA ==
  /\ InitN /\ [][NANext]_vars
  /\ WF_vars(NAAnimationFrame)
  /\ NLoopFairness

-----------------------------------------------------------------------------
\* Claims about the notification build of part_000

\* C1: from the start of the run on, no step of the program (timer callback,
\* simulation tick, user input) raises the score, and the score is never
\* negative
C1_ScoreNeverRisesNorNegative ==
  [][n.gameStartedRef => (n'.scoreRef <= n.scoreRef /\ n'.scoreRef >= 0)]_vars

\* a time penalty and a collision penalty have both been taken
C1_Witness ==
  /\ n.gameStartedRef
  /\ n.lastScoreDeduction > n.firstTimerAt
  /\ Len(n.collisionEvents) > 0
  /\ n.scoreRef = INITIAL_SCORE - 5 - 10 * Len(n.collisionEvents)

\* C3: the record is exported exactly once per run, on the tick the run is
\* completed: never while the run is not completed, never a second time
C3_ExportedOnceAtCompletion ==
  /\ Len(n.exports) <= 1
  /\ (n.exports # <<>>) = n.isComplete

\* the runs of modeByUnit fill every index from 0 to last, each once
Tiled(modeByUnit, last) ==
  IF last < 0 THEN modeByUnit = <<>>
  ELSE /\ Len(modeByUnit) > 0
       /\ modeByUnit[1].from = 0
       /\ modeByUnit[Len(modeByUnit)].to = last
       /\ \A i \in DOMAIN modeByUnit :
            /\ modeByUnit[i].from <= modeByUnit[i].to
            /\ i < Len(modeByUnit) => modeByUnit[i + 1].from = modeByUnit[i].to + 1

\* C4: every execution of the finalization after the first leaves modeByUnit,
\* collisionEvents, whiteBlocksHit, the score and finalScore as the first
\* execution left them
C4_FinalizationIdempotent == n.finalizations >= 2 => n.finalSame

\* the finalization ran twice on the completing tick and again on a later tick
C4_Witness ==
  /\ n.finalizations >= 3
  /\ n.finalFirst.finalScore = n.finalFirst.score
  /\ n.exports[Len(n.exports)].tick > n.exports[1].tick

\* C5: during the run modeByUnit holds one label for every unit from 0 to the
\* last unit logged, and when the run is completed for every unit from 0 to
\* TRACK_LENGTH
C5_ModeByUnitGapFree ==
  /\ n.gameStartedRef => Tiled(n.modeByUnit, n.lastDistanceUnitLoggedRef)
  /\ n.isComplete => n.lastDistanceUnitLoggedRef = TRACK_LENGTH

\* a completed run: the ticks skipped units on the way and the finalization
\* filled the units up to TRACK_LENGTH
C5_Witness ==
  /\ n.isComplete
  /\ n.runTicks < TRACK_LENGTH
  /\ n.modeByUnit = <<[from |-> 0, to |-> TRACK_LENGTH, mode |-> "copilot"]>>

\* the phase of the run: 0 idle (instructions shown), 1 countdown, 2 running,
\* 3 completed
Phase(w) ==
  IF w.isComplete THEN 3
  ELSE IF w.gameStartedRef THEN 2
  ELSE IF ~w.showInstructions THEN 1
  ELSE 0

\* C15: the phase only moves forward, one phase at a time, idle -> countdown
\* -> running -> completed: completed is entered from running only, no phase
\* is entered again or left backwards, and the run starts exactly once (the
\* start time is set on the step from countdown to running and on no other)
C15_PhasesOnlyForward ==
  [][/\ Phase(n') \in {Phase(n), Phase(n) + 1}
     /\ (n'.startTimeRef # n.startTimeRef \/ n'.gameStartedRef # n.gameStartedRef)
          => (Phase(n) = 1 /\ Phase(n') = 2)]_vars

\* a run that went through the four phases
C15_Witness ==
  /\ Phase(n) = 3
  /\ n.gameStartedRef /\ ~n.showInstructions /\ n.startTimeRef # 0
  /\ n.count = 0

\* C19: after teardown no timer or callback fires: the animation frame, the
\* timer interval, the countdown interval and its GO timeout and the other
\* timeouts are cancelled, so nothing changes the state any more
C19_NothingFiresAfterTeardown == [][n.torn => n' = n]_vars

\* the steps of ten seconds, a suspension the host is expected to survive
TickCap == 10 * FIXED_FPS

\* C11: the steps run within one animation callback stay under a fixed cap,
\* whatever the real time since the callback before
C11_TicksPerCallbackCapped == n.loopTicks <= TickCap

\* C21: each of the five notifications has been delivered exactly once as
\* soon as a timer callback has run at or after its trigger second, whether
\* or not a callback ran within the trigger second itself
C21_DeliveredOnceWhenDue ==
  \A i \in Idx(notificationTimes) :
    (n.timerCalls > 0 /\ (n.lastTimerAt - n.startTimeRef) \div SEC >= At(notificationTimes, i))
      => Cardinality({j \in DOMAIN n.notifications : n.notifications[j].index = i}) = 1

\* a delivered notification is not yet marked seen
SomeUnseen(w) == \E i \in DOMAIN w.notifications : ~w.notifications[i].seen

\* C22: the run becomes completed only on a tick that leaves the car at or
\* past the track length, the finish line crossed and every delivered
\* notification seen, at least one being delivered; while the line is crossed
\* and a notification is unseen the run is not completed, the reminder is
\* shown, the timer callback still runs and takes 5 points for a second passed
C22_CompletionNeedsAllSeen ==
  /\ [](/\ n.isComplete => (n.finishLineCrossed /\ AllNotificationsSeen(n))
        /\ (n.finishLineCrossed /\ SomeUnseen(n)) =>
             /\ ~n.isComplete /\ ~n.isCompleteRef
             /\ n.showViewAllNotificationsPopup
             /\ (~n.torn => TimerRuns(n)))
  /\ [][/\ (~n.isComplete /\ n'.isComplete) =>
             /\ n'.frameCount = n.frameCount + 1
             /\ n'.carZ <= 0 - TRACK_LENGTH * 1000
             /\ Len(n'.notifications) > 0
        /\ (/\ n.finishLineCrossed /\ SomeUnseen(n)
            /\ n'.timerCalls = n.timerCalls + 1
            /\ n.lastScoreDeduction # 0 /\ now' - n.lastScoreDeduction >= SEC) =>
             n'.scoreRef = NTimePenalty(n.scoreRef)]_vars

\* the line is crossed with a notification unseen: the run goes on under the
\* reminder and a timer callback after the crossing has taken its 5 points
C22_Witness ==
  /\ n.finishLineCrossed /\ SomeUnseen(n) /\ ~n.isComplete
  /\ n.showViewAllNotificationsPopup
  /\ n.lastTimerAt > n.finishLineCrossTime
  /\ n.lastScoreDeduction = n.lastTimerAt
  /\ n.scoreRef < INITIAL_SCORE - 10 * Len(n.collisionEvents)

\* the sum of the durations of the sessions of a notification that are closed
RECURSIVE SessionsDuration(_)
SessionsDuration(openSessions) ==
  IF openSessions = <<>> THEN 0
  ELSE (IF Head(openSessions).closeTime = -1 THEN 0
        ELSE Head(openSessions).closeTime - Head(openSessions).openTime)
       + SessionsDuration(Tail(openSessions))

\* C23: in the record of a completed run every open session of every
\* notification has a closeTime, not earlier than its openTime, and
\* totalOpenDuration is the sum of the durations of the sessions
C23_SessionsClosedInFinalRecord ==
  n.isComplete =>
    \A i \in DOMAIN n.qualtrics.sim_notifications :
      LET x == n.qualtrics.sim_notifications[i]
      IN /\ \A j \in DOMAIN x.openSessions :
              /\ x.openSessions[j].closeTime # -1
              /\ x.openSessions[j].closeTime >= x.openSessions[j].openTime
         /\ x.totalOpenDuration = SessionsDuration(x.openSessions)

\* a step of the model that is one tick of the running notification build
\* made in manual mode
ManualTick == n'.frameCount = n.frameCount + 1 /\ n.gameStartedRef /\ ~n.autopilotRef

\* C24: in manual mode (not on the tick that takes over from the autopilot),
\* with ArrowDown held and ArrowUp not, a tick lowers the velocity by exactly
\* the brake rate 0.025, or to zero when less is left, and leaves zero at zero
C24_BrakeLowersByBrakeRate ==
  [][(/\ ManualTick /\ ~n.wasAutopilot /\ ~n.finishLineCrossed
      /\ n.keys.ArrowDown /\ ~n.keys.ArrowUp)
       => n'.carVelocity = Max(n.carVelocity - 25, 0)]_vars

\* C25: the lateral offset lies between the outermost lane centers, the lane
\* index is 0, 1 or 2 and the target offset is the center of the current lane
C25_OffsetWithinLanes ==
  /\ n.carLaneOffset >= lanes[1] /\ n.carLaneOffset <= lanes[3]
  /\ n.currentLaneIndex \in 0 .. 2
  /\ n.targetLane = lanes[n.currentLaneIndex + 1]

\* the driver moved one lane to the left, the autopilot then chose the center
\* lane again, and the car is on its way back between the two lane centers
C25_Witness ==
  /\ n.pressShifts.ArrowLeft = 1 /\ n.wasAutopilot
  /\ n.currentLaneIndex = 1 /\ n.targetLane = 0
  /\ n.carLaneOffset < 0 /\ n.carLaneOffset > lanes[1]

\* C26: between the keydown that begins a press of a lane-change key and its
\* keyup the car is shifted by at most one lane, whatever keydown events the
\* keyboard repeats meanwhile
C26_OneShiftPerPress ==
  n.pressShifts.ArrowLeft <= 1 /\ n.pressShifts.ArrowRight <= 1

\* C27: a tick made in manual mode, the first one after the autopilot
\* included, leaves the velocity between 0 and MANUAL_MAX_VELOCITY
C27_ManualVelocityCapped ==
  [][ManualTick => (n'.carVelocity >= 0 /\ n'.carVelocity <= MANUAL_MAX_VELOCITY)]_vars

\* the autopilot handed over a velocity above the manual maximum and the
\* first manual tick has brought it down
C27_Witness ==
  /\ n.switchVelocity > MANUAL_MAX_VELOCITY
  /\ ~n.autopilotRef /\ ~n.wasAutopilot
  /\ n.carVelocity <= MANUAL_MAX_VELOCITY /\ n.carVelocity > 0

\* the hazard overlaps the car: dx < 1.8 && dz < 3
Overlaps(w, block) ==
  Abs(block.x - w.carLaneOffset) < 1800 /\ Abs(block.z - w.carZ) < 3000

\* C29: a hazard that overlaps the car after a tick of the run before the
\* finish line has registered a collision, on this tick or on an earlier one:
\* a hazard that never registered one is not on cooldown, whatever the other
\* hazards registered
C29_FreshHazardRegisters ==
  (n.gameStartedRef /\ ~n.finishLineCrossed) =>
    \A i \in DOMAIN n.finalBlocks :
      Overlaps(n, n.finalBlocks[i]) =>
        \E e \in DOMAIN n.collisionEvents :
          n.collisionEvents[e].obj = <<"block", n.finalBlocks[i].id>>

\* a hazard registers its first collision on the tick just made, after
\* another hazard registered one earlier in the run
C29_Witness ==
  /\ n.gameStartedRef /\ ~n.finishLineCrossed
  /\ \E i \in DOMAIN n.finalBlocks :
       /\ Overlaps(n, n.finalBlocks[i])
       /\ \E b \in DOMAIN n.collisionEvents :
            /\ n.collisionEvents[b].obj = <<"block", n.finalBlocks[i].id>>
            /\ n.collisionEvents[b].tick = n.frameCount
            /\ \A a \in 1 .. (b - 1) : n.collisionEvents[a].obj # n.collisionEvents[b].obj
            /\ \E a \in 1 .. (b - 1) : n.collisionEvents[a].type = "block"

\* C30: every hazard of the run has one of the three lane centers as its
\* lateral coordinate, whichever of the three spawn zones made it
C30_HazardsLaneAligned ==
  \A i \in DOMAIN n.finalBlocks : n.finalBlocks[i].x \in {lanes[1], lanes[2], lanes[3]}

C33_CompletedOnNextTick ==
  [][/\ (/\ n'.frameCount = n.frameCount + 1
         /\ n.finishLineCrossed /\ AllNotificationsSeen(n)) => n'.isComplete
     /\ (/\ n'.frameCount = n.frameCount + 1
         /\ ~n.finishLineCrossed /\ n'.finishLineCrossed
         /\ AllNotificationsSeen(n)) => n'.isComplete]_vars

\* a run completed by the check that follows the crossing: the line was
\* crossed with a notification unseen and the last one was opened later
C33_Witness ==
  /\ n.isComplete /\ n.finishLineCrossed /\ AllNotificationsSeen(n)
  /\ \E e \in DOMAIN n.exports : n.exports[e].by = "after"
  /\ \A e \in DOMAIN n.exports : n.exports[e].by # "crossing"

\* an obstacle inside the too-close window of the car: the band of the car's
\* lane, from 60 units ahead to 15 units behind
TooClose(w) ==
  \E j \in 1 .. Len(Obstacles(w)) :
    /\ Obstacles(w)[j].z - w.carZ < 15000
    /\ Obstacles(w)[j].z - w.carZ > -60000
    /\ Abs(Obstacles(w)[j].x - w.carLaneOffset) < 1500

\* a click on the mode button
ToggleStep ==
  /\ n'.inputs = n.inputs + 1
  /\ n'.notifications = n.notifications
  /\ n'.selectedNotification = n.selectedNotification

\* C34: a click on the mode button in manual mode leaves the request pending
\* and the mode manual; a pending request is granted only on a tick on which
\* no obstacle is inside the too-close window; a click while the request is
\* pending cancels it and the mode stays manual; the autopilot is never
\* engaged while a request is pending
C34_PendingUntilClear ==
  /\ [](~(n.autopilotRef /\ n.autopilotPendingRef))
  /\ [][/\ (ToggleStep /\ ~n.isAutopilot /\ ~n.autopilotPendingRef) =>
             (n'.autopilotPendingRef /\ ~n'.isAutopilot /\ ~n'.autopilotRef)
        /\ (n.autopilotPendingRef /\ ~n.isAutopilot /\ n'.isAutopilot) =>
             (n'.frameCount = n.frameCount + 1 /\ ~TooClose(n))
        /\ (ToggleStep /\ n.autopilotPendingRef) =>
             (~n'.autopilotPendingRef /\ ~n'.isAutopilot /\ ~n'.autopilotRef)]_vars

\* the position of the car at the last hazard spawn, whichever zone made it
LastSpawnZ(w) ==
  Min(w.lastBlockSpawnZ, Min(w.lastLateBlockSpawnZ, w.lastFinishBurstSpawnZ))

\* C35: a tick spawns at most one hazard, and a hazard other than the first is
\* spawned with the car at least baseBlockSpawnDistance past the position it
\* had at the previous spawn, whichever zones made the two
C35_SpawnsSpacedApart ==
  [][n'.blockSpawnCount # n.blockSpawnCount =>
       /\ n'.blockSpawnCount = n.blockSpawnCount + 1
       /\ Len(n'.finalBlocks) <= Len(n.finalBlocks) + 1
       /\ n.blockSpawnCount > 0 =>
            LastSpawnZ(n) - LastSpawnZ(n') >= baseBlockSpawnDistance * 1000]_vars

\* C36: in a run left to the autopilot every tick before the finish line
\* leaves the velocity above zero and the car further down the track, and
\* with animation callbacks that keep arriving the finish line is crossed
C36_AutopilotReachesFinish ==
  /\ [][(/\ n'.frameCount = n.frameCount + 1
         /\ n.gameStartedRef /\ n.autopilotRef /\ ~n.finishLineCrossed) =>
          (n'.carVelocity > 0 /\ n'.carZ < n.carZ)]_vars
  /\ ((n.gameStartedRef /\ n.autopilotRef) ~> n.finishLineCrossed)

\* a run left to the autopilot has crossed the finish line
C36_Witness ==
  /\ n.finishLineCrossed /\ n.autopilotRef /\ n.inputs = 0
  /\ n.carZ <= 0 - TRACK_LENGTH * 1000
  /\ n.loopTicks > 0

\* C37: after an autopilot tick that has taken the emergency-brake or the
\* light-brake branch the velocity is not greater than it was before the tick
C37_BrakingNeverAccelerates ==
  (/\ n.decision.tick = n.frameCount
   /\ n.decision.branch \in {"emergency", "light"}) =>
    n.carVelocity <= n.decision.before

\* the last session of notification x has no closeTime
HasOpenSession(x) ==
  /\ Len(x.openSessions) > 0
  /\ x.openSessions[Len(x.openSessions)].closeTime = -1

\* C38: once the effect on selectedNotification has run, a notification with
\* an open session is the notification on display, so at most one session is
\* open, and the session of a notification that was left for another one is
\* closed
C38_OnlyDisplayedSessionOpen ==
  (n.selectedCommitted = n.selectedNotification) =>
    \A i \in DOMAIN n.notifications :
      HasOpenSession(n.notifications[i]) =>
        n.notifications[i].index = n.selectedNotification

\* the collision events of type 'block'
BlockEvents(events) == {i \in DOMAIN events : events[i].type = "block"}

\* C39: after the start of the run the score is 1000 less 5 for every time
\* deduction of the timer and 10 for every recorded collision event, and not
\* below zero, and whiteBlocksHit is the number of events of type 'block'
C39_ScoreAccountsForDeductions ==
  n.gameStartedRef =>
    /\ n.scoreRef = Max(0, INITIAL_SCORE - 5 * n.timeDeductions
                             - 10 * Len(n.collisionEvents))
    /\ n.whiteBlocksHit = Cardinality(BlockEvents(n.collisionEvents))

\* the timer has deducted and a hazard has been hit
C39_Witness ==
  /\ n.gameStartedRef /\ n.timeDeductions > 0
  /\ BlockEvents(n.collisionEvents) # {}
  /\ n.scoreRef = INITIAL_SCORE - 5 * n.timeDeductions - 10 * Len(n.collisionEvents)
  /\ n.whiteBlocksHit = Cardinality(BlockEvents(n.collisionEvents))

-----------------------------------------------------------------------------
(* Build manual: src/unnamed/part_000 lines 1-1128 (manual control, 90 seconds,  *)
(* one step per animation frame).  The driver of the model never asks for   *)
(* the copilot and presses no key, so autopilotRef stays false and the      *)
(* autopilot and pending blocks of animate() (lines 547-692) are not        *)
(* entered.  Animation frames come in bursts: frames 1/60 s apart with no   *)
(* other callback between them; a burst ends with the frame that completes  *)
(* the run.                                                                 *)

\* frames of a burst before the run has started, and during the run
MIdleBurst == 12000

MRunBurst == 1000

\* Math.floor(Math.random() * lanes.length) of a spawn, in the model
MRandomLanes == {1}

\* delays of the timer interval of the model
MTimerDelays == {SEC}

M_TRACK_LENGTH == 8000

M_MANUAL_MAX_VELOCITY == 625

lateBlockSpawnDistance == 70

finishBurstSpawnDistance == 30

\* the collision branches keep no event list in this build: collisionEvents
\* of the record is not part of it; the traffic loop does not test
\* finishLineCrossed
MCfg == [trackLength |-> M_TRACK_LENGTH, penalised |-> TRUE, flash |-> FALSE, guarded |-> FALSE]

MInit == [BaseInit EXCEPT !.isAutopilot = FALSE]

\* the mount effect: the timer interval; the effects copy the states to refs
MMountEffect(w) ==
  [w EXCEPT !.mounted = TRUE, !.autopilotRef = w.isAutopilot, !.timerInterval = TRUE]

\* startGame of the manual build
MStartGame(w) ==
  [w EXCEPT !.showInstructions = FALSE, !.isAutopilot = FALSE, !.autopilotRef = FALSE,
            !.autopilotPendingRef = FALSE, !.count = 3, !.countdownInterval = TRUE]

MDensityLevel(w) ==
  Min((Min(Abs(w.carZ), M_TRACK_LENGTH * 1000) * 10) \div (M_TRACK_LENGTH * 1000), 10)

MDistanceToFinish(w) == w.carZ + M_TRACK_LENGTH * 1000

MBlock(w, lane, spawnDistance, offset) ==
  [x |-> lanes[lane + 1], z |-> w.carZ - spawnDistance - offset, id |-> w.blockSpawnCount]

\* the three spawns of a frame; lane is the Math.random() draw of the lane,
\* the offsets are the least ones (Math.random() = 0) and a burst has one lane
MSpawn(w, elapsed, lane) ==
  LET far == /\ ~w.finishLineCrossed /\ elapsed >= 0
             /\ MDistanceToFinish(w) > AUTOPILOT_BLIND_DISTANCE * 1000
             /\ Abs(w.carZ) > 80000
             /\ Abs(w.carZ - w.lastBlockSpawnZ)
                  >= Max(55000, baseBlockSpawnDistance * 1000 - MDensityLevel(w) * 7000)
      w1 == IF far
            THEN [w EXCEPT !.lastBlockSpawnZ = w.carZ,
                           !.finalBlocks = Append(@, MBlock(w, lane, 80000, 3000)),
                           !.blockSpawnCount = @ + 1]
            ELSE w
      late == /\ ~w.finishLineCrossed /\ elapsed >= 0
              /\ MDistanceToFinish(w) <= AUTOPILOT_BLIND_DISTANCE * 1000
              /\ MDistanceToFinish(w) > 300000
              /\ Abs(w.carZ - w.lastLateBlockSpawnZ)
                   >= Max(35000, lateBlockSpawnDistance * 1000 - MDensityLevel(w) * 4000)
      w2 == IF late
            THEN [w1 EXCEPT !.lastLateBlockSpawnZ = w.carZ,
                            !.finalBlocks = Append(@, MBlock(w1, lane, 70000, 3500)),
                            !.blockSpawnCount = @ + 1]
            ELSE w1
      burst == /\ ~w.finishLineCrossed /\ elapsed >= 0
               /\ MDistanceToFinish(w) > 0 /\ MDistanceToFinish(w) < 300000
               /\ Abs(w.carZ - w.lastFinishBurstSpawnZ)
                    >= Max(35000, finishBurstSpawnDistance * 1000 - MDensityLevel(w) * 1800)
  IN IF burst
     THEN [w2 EXCEPT !.lastFinishBurstSpawnZ = w.carZ,
                     !.finalBlocks = Append(@, MBlock(w2, lane, 60000, 6000)),
                     !.blockSpawnCount = @ + 1]
     ELSE w2

\* manual control: the car moves off by itself, before the start as well
\* (keys w, s, a, d are kept in ArrowUp, ArrowDown, ArrowLeft, ArrowRight)
MManual(w) ==
  LET v0 == IF w.wasAutopilot THEN Min(w.carVelocity, M_MANUAL_MAX_VELOCITY) ELSE w.carVelocity
      v1 == IF v0 < M_MANUAL_MAX_VELOCITY THEN Min(v0 + 5, M_MANUAL_MAX_VELOCITY) ELSE v0
      v2 == IF w.keys.ArrowUp THEN Min(v1 + 8, M_MANUAL_MAX_VELOCITY) ELSE v1
      v3 == IF w.keys.ArrowDown THEN Max(v2 - 25, 0) ELSE v2
      left == w.keys.ArrowLeft /\ w.currentLaneIndex > 0
      l1 == IF left THEN w.currentLaneIndex - 1 ELSE w.currentLaneIndex
      right == w.keys.ArrowRight /\ l1 < 2
      l2 == IF right THEN l1 + 1 ELSE l1
  IN [w EXCEPT !.wasAutopilot = FALSE, !.carVelocity = v3,
               !.currentLaneIndex = l2,
               !.targetLane = IF left \/ right THEN lanes[l2 + 1] ELSE @,
               !.keys.ArrowLeft = IF left THEN FALSE ELSE @,
               !.keys.ArrowRight = IF right THEN FALSE ELSE @]

\* the finish line is crossed: the score is copied to finalScore
MFinishCheck(w, t) ==
  IF w.carZ <= 0 - M_TRACK_LENGTH * 1000 /\ ~w.isCompleteRef /\ ~w.finishLineCrossed
  THEN [w EXCEPT !.finishLineCrossed = TRUE, !.finishLineCrossTime = t,
                 !.finalScore = w.scoreRef, !.isComplete = TRUE, !.finalBlocks = <<>>]
  ELSE w

\* five seconds after the crossing the car stops
MStop(w, t) ==
  IF w.finishLineCrossed /\ w.finishLineCrossTime # 0 /\ t - w.finishLineCrossTime >= 5 * SEC
  THEN [w EXCEPT !.carVelocity = 0]
  ELSE w

\* animate(), one frame at time t
MAnimate(w, t, lane) ==
  LET elapsed == ElapsedSeconds(w, t)
      w0 == [w EXCEPT !.frameCount = @ + 1]
      w1 == IF w0.finishLineCrossed THEN [w0 EXCEPT !.finalBlocks = <<>>] ELSE w0
      w2 == MSpawn(w1, elapsed, lane)
      w3 == MManual(w2)
      w4 == MoveCar(w3, 10, 1)
      w5 == TrafficLoop(w4, MCfg, 0, 1)
      w6 == IF w5.finishLineCrossed THEN w5 ELSE BlocksLoop(w5, MCfg, Len(w5.finalBlocks) - 1)
  IN IF elapsed >= 90 THEN w0 ELSE MStop(MFinishCheck(w6, t), t)

\* the time-based deduction of the timer callback
MDeduct(w, t) ==
  LET last == IF w.lastScoreDeduction = 0 THEN t ELSE w.lastScoreDeduction
  IN IF t - last >= SEC
     THEN [w EXCEPT !.scoreRef = Max(0, @ - 5), !.lastScoreDeduction = t]
     ELSE [w EXCEPT !.lastScoreDeduction = last]

\* the completion branch of the timer callback: the 90 seconds are over
MComplete(w, elapsed, t) ==
  IF Max(0, 90 - elapsed) = 0 /\ ~w.finishLineCrossed
  THEN LET w1 == [w EXCEPT !.finishLineCrossed = TRUE, !.finishLineCrossTime = t,
                            !.finalScore = w.scoreRef, !.isComplete = TRUE,
                            !.timerInterval = FALSE, !.finalBlocks = <<>>]
       IN SetEmbeddedData(w1, TimerRecord(w1), "timer")
  ELSE w

\* the timer-interval callback at time t
MTimer(w, t) ==
  LET elapsed == (t - w.startTimeRef) \div SEC
      w1 == [w EXCEPT !.timerCalls = @ + 1]
      w2 == IF elapsed <= 90 THEN LogSecond(w1, elapsed) ELSE w1
  IN MComplete(MDeduct(w2, t), elapsed, t)

\* the mount effect ends with the first call of animate(), a whole frame
MMount ==
  /\ ~manual.mounted
  /\ \E lane \in MRandomLanes : manual' = MAnimate(MMountEffect(manual), now, lane)
  /\ UNCHANGED <<now, s, f, n>>

MStartGameClick ==
  /\ manual.mounted /\ manual.showInstructions /\ manual.burst = 0
  /\ manual' = MStartGame(manual)
  /\ UNCHANGED <<now, s, f, n>>

MCountdown ==
  /\ manual.countdownInterval /\ manual.count > 0 /\ manual.burst = 0
  /\ now' = now + SEC
  /\ manual' = CountdownStep(manual)
  /\ UNCHANGED <<s, f, n>>

MGo ==
  /\ manual.goTimeout /\ manual.burst = 0
  /\ now' = now + 5 * MS100
  /\ manual' = GoTimeout(manual, now')
  /\ UNCHANGED <<s, f, n>>

MTimerInterval ==
  /\ TimerRuns(manual) /\ CallbackBudget(manual) /\ manual.burst = 0
  /\ \E d \in MTimerDelays :
       /\ now' = now + d
       /\ manual' = MTimer(manual, now')
  /\ UNCHANGED <<s, f, n>>

\* a burst of animation frames begins: on the instructions screen, or in
\* the run
MFrames ==
  /\ manual.mounted /\ CallbackBudget(manual) /\ manual.burst = 0
  /\ manual.gameStartedRef \/ manual.showInstructions
  /\ manual' = [manual EXCEPT !.burst = IF manual.gameStartedRef THEN MRunBurst ELSE MIdleBurst,
                    !.frames = IF manual.gameStartedRef THEN @ + 1 ELSE @,
                    !.idleFrames = IF manual.gameStartedRef THEN @ ELSE @ + 1]
  /\ UNCHANGED <<now, s, f, n>>

\* one animation frame of the burst
MFrame ==
  /\ manual.burst > 0
  /\ now' = now + QUANTA
  /\ \E lane \in MRandomLanes :
       LET frame == MAnimate(manual, now', lane)
       IN manual' = [frame EXCEPT !.burst = IF frame.isComplete /\ ~manual.isComplete THEN 0 ELSE @ - 1]
  /\ UNCHANGED <<s, f, n>>

\* the effect that copies the isComplete state into its ref after a render
MCommitIsComplete ==
  /\ manual.isCompleteRef # manual.isComplete /\ manual.burst = 0
  /\ manual' = [manual EXCEPT !.isCompleteRef = manual.isComplete]
  /\ UNCHANGED <<now, s, f, n>>

MNext ==
  \/ MMount
  \/ MStartGameClick
  \/ MCountdown
  \/ MGo
  \/ MTimerInterval
  \/ MFrames
  \/ MFrame
  \/ MCommitIsComplete

InitM == now = 0 /\ s = BaseInit /\ f = BaseInit /\ n = BaseInit /\ manual = MInit

SpecM == InitM /\ [][MNext]_vars

-----------------------------------------------------------------------------
\* Claims about part_000, lines 1-1128

\* C17: once the run is completed by crossing the finish line the score is
\* frozen: no later frame or timer callback changes it, and it equals the
\* finalScore taken at the crossing
C17_ScoreFrozenAfterCrossing ==
  (manual.isComplete /\ manual.carZ <= 0 - M_TRACK_LENGTH * 1000) => manual.scoreRef = manual.finalScore

====
